---- MODULE Spec2Model ----
(***************************************************************************)
(* music-sync: transfer of liked songs, playlists and saved albums between *)
(* Spotify and Apple Music.  The module models                             *)
(*   - the identity matcher (_search_track, _search_album) of the Spotify  *)
(*     client (spotify.py) and of the Apple Music API client               *)
(*     (apple_music.py),                                                   *)
(*   - the destination write operations (add_liked_songs, create_playlist, *)
(*     save_albums) of those two clients and of the AppleScript client     *)
(*     (src/apple_music.py),                                               *)
(*   - the GUI worker MusicSyncApp._run_sync (app.py) with its progress    *)
(*     arithmetic, which Python carries out in IEEE-754 binary64.          *)
(***************************************************************************)
EXTENDS Integers, Sequences, FiniteSets, TLC

(***************************************************************************)
(* Python floats.  Every fraction app.py computes lies in {0} \cup         *)
(* [2^-19, 2), so a binary64 value is held exactly as the integer count of *)
(* 2^-72 it equals, split in three limbs <<hi, mid, lo>> of 24 bits        *)
(* (value = (hi * 2^48 + mid * 2^24 + lo) * 2^-72); TLC's integers are 32  *)
(* bits wide.  A binary64 value has 53 significant bits: the bits below    *)
(* the 53rd are rounded away, to nearest, ties to even.                    *)
(***************************************************************************)
Limb == 2^24

FZero == <<0, 0, 0>>

FOne == <<Limb, 0, 0>>

\* the number of bits of h, 0 < h < 2^27
BitLen(h) == CHOOSE k \in 1..27 : 2^(k-1) <= h /\ h < 2^k

\* carries out of the two low limbs
Norm(x) ==
    LET lo == x[3] % Limb
        m  == x[2] + (x[3] \div Limb)
    IN  <<x[1] + (m \div Limb), m % Limb, lo>>

\* x (exact, plus a sticky flag for what lies below 2^-72) rounded to 53
\* significant bits, round-half-to-even
FRound(x, sticky) ==
    IF x[1] = 0 THEN x
    ELSE LET d    == BitLen(x[1]) - 5
             ulp  == 2^d
             low  == x[3] % ulp
             half == ulp \div 2
             odd  == (x[3] \div ulp) % 2 = 1
             up   == low > half \/ (low = half /\ (sticky \/ odd))
             lo1  == (x[3] - low) + (IF up THEN ulp ELSE 0)
         IN  Norm(<<x[1], x[2], lo1>>)

\* float / int: the correctly rounded quotient (q is exact as a float)
FDivInt(x, q) ==
    LET q1 == x[1] \div q
        t2 == (x[1] % q) * Limb + x[2]
        q2 == t2 \div q
        t3 == (t2 % q) * Limb + x[3]
        q3 == t3 \div q
    IN  FRound(<<q1, q2, q3>>, (t3 % q) # 0)

\* int / int: Python's true division, correctly rounded
FDiv(p, q) == FDivInt(<<p * Limb, 0, 0>>, q)

\* float + float
FAdd(x, y) == FRound(Norm(<<x[1] + y[1], x[2] + y[2], x[3] + y[3]>>), FALSE)

FLess(x, y) ==
    \/ x[1] < y[1]
    \/ x[1] = y[1] /\ x[2] < y[2]
    \/ x[1] = y[1] /\ x[2] = y[2] /\ x[3] < y[3]

FLeq(x, y) == x = y \/ FLess(x, y)

FMin(x, y) == IF FLess(y, x) THEN y ELSE x

FMax(x, y) == IF FLess(x, y) THEN y ELSE x

Max(a, b) == IF a >= b THEN a ELSE b

(***************************************************************************)
(* MusicSyncApp progress arithmetic (app.py).                              *)
(***************************************************************************)
\* _set_progress: the clamped fraction handed to the progress bar
Clamp(fraction) == FMax(FZero, FMin(FOne, fraction))

\* progress(done, total, ti): the closure of a liked-songs or albums task
progress(done, total, ti, total_tasks) ==
    FAdd(FDiv(ti, total_tasks),
         FDivInt(FDiv(done, Max(total, 1)), total_tasks))

\* faulty variant: every task has a third of the bar, selected or not
pl_progress_of_three(done, total, pi, pl_count, ti, total_tasks) ==
    FAdd(FAdd(FDiv(ti, 3),
              FDivInt(FDiv(pi, pl_count), 3)),
         FDivInt(FDivInt(FDiv(done, Max(total, 1)), pl_count), 3))

\* pl_progress(done, total, pi, pl_count): the closure of one playlist
pl_progress(done, total, pi, pl_count, ti, total_tasks) ==
    FAdd(FAdd(FDiv(ti, total_tasks),
              FDivInt(FDiv(pi, pl_count), total_tasks)),
         FDivInt(FDivInt(FDiv(done, Max(total, 1)), pl_count), total_tasks))

\* faulty variant: the end-of-task report without its + 1
task_done_off_by_one(ti, total_tasks) == FDiv(ti, total_tasks)

\* the report at the end of task task_i
task_done(ti, total_tasks) == FDiv(ti + 1, total_tasks)

(***************************************************************************)
(* Bounds of the model.                                                    *)
(***************************************************************************)
\* the most candidates the destination catalog returns for one query
MaxResults == 2

\* the most items handed to one write operation called on its own
MaxItems == 3

\* the most liked songs, and the most saved albums, a source library holds
MaxLibrary == 1

\* the most playlists a source library holds
MaxPlaylists == 3

\* the most tracks a source playlist holds
MaxTracks == 1

(***************************************************************************)
(* Source items and the destination catalog.                               *)
(***************************************************************************)
None == "None"

\* None in the place of a catalog identifier (identifiers are tuples)
NoId == <<>>

Names == {"n1", "n2"}

Artists == {"a1"}

Isrcs == {"I1", "I2"}

Upcs == {"U1"}

\* dict.get(key): None when the key is absent
Get(d, key) == IF key \in DOMAIN d THEN d[key] ELSE None

\* faulty variant: truthiness that only tests for None: "" counts as a code
TruthyNotNone(x) == x # None

\* Python truthiness of a string-or-None value
Truthy(x) == x # None /\ x # ""

\* track dicts: those read through the AppleScript client carry no "isrc" key
\* (src/apple_music.py), those read through an API carry one, possibly None
Tracks ==
    [name : Names, artist : Artists]
        \cup [name : Names, artist : Artists, isrc : Isrcs \cup {None, ""}]

\* album dicts: get_saved_albums of the API clients records the "upc"
Albums ==
    [name : Names, artist : Artists]
        \cup [name : Names, artist : Artists, upc : Upcs \cup {None}]

\* The destination catalog answers a query with a list of candidates; the
\* candidates of different queries differ, so a result names its query.
Hits(tag, key, n) == [k \in 1..n |-> <<tag, key, k>>]

Catalogs ==
    [isrc   : [Isrcs -> 0..MaxResults],
     songs  : [Names \X Artists -> 0..MaxResults],
     upc    : [Upcs -> 0..MaxResults],
     albums : [Names \X Artists -> 0..MaxResults]]

\* the number of candidates the catalog holds under a key (none for a key
\* it does not know)
Count(index, key) == IF key \in DOMAIN index THEN index[key] ELSE 0

\* the first `limit` candidates
Limit(xs, limit) == SubSeq(xs, 1, IF Len(xs) < limit THEN Len(xs) ELSE limit)

(***************************************************************************)
(* Identity matcher.  prov is "spotify" (spotify.py) or "apple_api"        *)
(* (apple_music.py).  A lookup is a record of the query sent; fault names  *)
(* the lookup on which the transport raises ("none", "code", "text").      *)
(* The result: the lookups issued in order, whether the call raised, and   *)
(* the identifier returned (NoId for no candidate).                        *)
(***************************************************************************)
\* sp.search(q="isrc:<isrc>", type="track", limit=1) /
\* _get("/catalog/us/songs", {"filter[isrc]": isrc})
CodeQuery(prov, track) ==
    IF prov = "spotify"
    THEN [kind |-> "code", type |-> "track", q |-> <<"isrc:", track.isrc>>]
    ELSE [kind |-> "code", type |-> "songs",
          q |-> <<"filter[isrc]", track.isrc>>]

\* sp.search(q="track:<name> artist:<artist>", type="track", limit=1) /
\* _get("/catalog/us/search", {"term": "<name> <artist>", "types": "songs"})
TextQuery(prov, track) ==
    IF prov = "spotify"
    THEN [kind |-> "text", type |-> "track",
          q |-> <<"track:", track.name, " artist:", track.artist>>]
    ELSE [kind |-> "text", type |-> "songs",
          q |-> <<"term", track.name, " ", track.artist>>]

\* sp.search(q="album:<name> artist:<artist>", type="album", limit=1) /
\* _get("/catalog/us/search", {"term": "<name> <artist>", "types": "albums"})
AlbumQuery(prov, album) ==
    IF prov = "spotify"
    THEN [kind |-> "text", type |-> "album",
          q |-> <<"album:", album.name, " artist:", album.artist>>]
    ELSE [kind |-> "text", type |-> "albums",
          q |-> <<"term", album.name, " ", album.artist>>]

\* the destination's answer to the code lookup of a track
CodeAnswer(prov, cat, track) ==
    LET all == Hits("isrc", track.isrc, Count(cat.isrc, track.isrc))
    IN  IF prov = "spotify" THEN Limit(all, 1) ELSE all

\* the destination's answer to a text lookup (limit=1 on both providers)
TextAnswer(cat, track) ==
    Limit(Hits("songs", <<track.name, track.artist>>,
               Count(cat.songs, <<track.name, track.artist>>)), 1)

AlbumAnswer(cat, album) ==
    Limit(Hits("albums", <<album.name, album.artist>>,
               Count(cat.albums, <<album.name, album.artist>>)), 1)

\* items[0]["id"] if items else None
FirstOrNone(items) == IF Len(items) > 0 THEN items[1] ELSE NoId

\* the text fallback of _search_track
TextFallback(prov, track, cat, fault, before) ==
    IF fault = "text"
    THEN [queries |-> Append(before, TextQuery(prov, track)),
          raised |-> TRUE, id |-> NoId]
    ELSE [queries |-> Append(before, TextQuery(prov, track)),
          raised |-> FALSE, id |-> FirstOrNone(TextAnswer(cat, track))]

\* faulty variant: the early return on a code hit is missing: the text fallback
\* always runs and decides the result
_search_track_no_return(prov, track, cat, fault) ==
    IF Truthy(Get(track, "isrc"))
    THEN IF fault = "code"
         THEN [queries |-> <<CodeQuery(prov, track)>>,
               raised |-> TRUE, id |-> NoId]
         ELSE TextFallback(prov, track, cat, fault,
                           <<CodeQuery(prov, track)>>)
    ELSE TextFallback(prov, track, cat, fault, <<>>)

\* faulty variant: no text fallback after an empty code answer
_search_track_no_fallback(prov, track, cat, fault) ==
    IF Truthy(Get(track, "isrc"))
    THEN IF fault = "code"
         THEN [queries |-> <<CodeQuery(prov, track)>>,
               raised |-> TRUE, id |-> NoId]
         ELSE [queries |-> <<CodeQuery(prov, track)>>,
               raised |-> FALSE,
               id |-> FirstOrNone(CodeAnswer(prov, cat, track))]
    ELSE TextFallback(prov, track, cat, fault, <<>>)

_search_track(prov, track, cat, fault) ==
    IF Truthy(Get(track, "isrc"))
    THEN IF fault = "code"
         THEN [queries |-> <<CodeQuery(prov, track)>>,
               raised |-> TRUE, id |-> NoId]
         ELSE IF Len(CodeAnswer(prov, cat, track)) > 0
              THEN [queries |-> <<CodeQuery(prov, track)>>,
                    raised |-> FALSE,
                    id |-> CodeAnswer(prov, cat, track)[1]]
              ELSE TextFallback(prov, track, cat, fault,
                                <<CodeQuery(prov, track)>>)
    ELSE TextFallback(prov, track, cat, fault, <<>>)

_search_album(prov, album, cat, fault) ==
    IF fault = "text"
    THEN [queries |-> <<AlbumQuery(prov, album)>>,
          raised |-> TRUE, id |-> NoId]
    ELSE [queries |-> <<AlbumQuery(prov, album)>>,
          raised |-> FALSE, id |-> FirstOrNone(AlbumAnswer(cat, album))]

(***************************************************************************)
(* State.                                                                  *)
(***************************************************************************)
VARIABLES
    mprov,      \* matcher: the client whose matcher runs
    mitem,      \* matcher: the track or album to resolve
    mcat,       \* matcher: the destination catalog
    mfault,     \* matcher: the lookup on which the transport raises
    mpc,        \* matcher: "call" before the resolve, "done" after it
    mres,       \* matcher: the outcome of the resolve
    wprov,      \* write call: the destination client
    wop,        \* write call: add_liked_songs, create_playlist, save_albums
    wname,      \* write call: the playlist name handed in
    wdesc,      \* write call: the playlist description handed in
    witems,     \* write call: the tracks or albums handed in
    wcat,       \* the destination: its catalog, or the local Music library
    wuid,       \* SpotifyClient._user_id (None until first needed)
    wpc,        \* write call: "idle", "prelude", "create", "loop",
                \*   "populate", "returned", "raised"
    wi,         \* write call: the number of items processed so far
    added,      \* write call: the local added
    failed,     \* write call: the local failed
    track_ids,  \* write call: the local track_ids of create_playlist
    wb,         \* write call: the offset of the next batch to submit
    wexc,       \* write call: the step whose exception left the call
    ticks,      \* write call: the progress_cb invocations, <<done, total>>
    calls,      \* every call sent to the destination, in order
    direction,  \* MusicSyncApp._direction
    sel,        \* MusicSyncApp._liked, _playlists, _albums
    _spotify,   \* MusicSyncApp._spotify (None until connected)
    _running,   \* MusicSyncApp._running
    gpc,        \* the worker's position in _run_sync
    dst,        \* _run_sync: the client the writers belong to
    tasks,      \* _run_sync: the labels of tasks
    task_i,     \* _run_sync: the index of the task in progress
    items,      \* _run_sync: what the reader of the task returned
    pl_i,       \* _run_sync: the index of the playlist in progress
    all_failed, \* _run_sync: the unmatched tracks of the playlists task
    cb,         \* the closure handed to the writer as progress_cb
    reports,    \* the fractions _set_progress handed to the progress bar
    reads,      \* the labels of the source collections read, in order
    status,     \* the text of the status label
    glog,       \* the run's outcome lines in the log
    dry_run,    \* TransferEngine.dry_run (False in the GUI)
    pfun,       \* collector: get_liked_songs or _get_playlist_tracks
    psrc,       \* collector: the items the source library holds, in order
    pcap,       \* collector: the most items the server puts in one page
    ppc,        \* collector: "get", "returned", "raised"
    offset,     \* collector: the local offset
    ptracks,    \* collector: the local tracks
    preqs,      \* collector: the requests sent, in order
    upl,        \* Music app: its user playlists, in the app's order
    plorder,    \* Music app: where it lists a newly made playlist
    cprov,      \* get_*: the client whose collector runs
    cfun,       \* get_*: get_liked_songs or get_playlists
    clib,       \* get_*: the collection the source library holds
    ccap,       \* get_*: the most items the server puts in one page
    cpc,        \* get_*: "get", "item", "tracks", "next", "returned",
                \*   "raised"
    coffset,    \* get_*: the local offset (Spotify: that of `results`)
    cpage,      \* get_*: the local items and the next cursor of the page
    ck,         \* get_*: the number of items of the page worked off
    cout,       \* get_*: the local tracks or playlists
    tid,        \* _get_playlist_tracks: the argument playlist_id
    toffset,    \* _get_playlist_tracks: the local offset
    ttracks,    \* _get_playlist_tracks: the local tracks
    clog,       \* get_*: the requests sent and the records appended
    _sync_btn,  \* MusicSyncApp._sync_btn: its state option
    after_q,    \* the callbacks queued with after(0, ...), in order
    workers,    \* the threads started on _run_sync, in order of start
    auth,       \* how the Spotify setup of __init__ came out
    dialog      \* the error box the latest click on Sync showed

matchVars == <<mprov, mitem, mcat, mfault, mpc, mres>>

writeVars ==
    <<wprov, wop, wname, wdesc, witems, wcat, wuid, wpc, wi, added, failed,
      track_ids, wb, wexc, ticks, calls>>

guiVars ==
    <<direction, sel, _spotify, _running, gpc, dst, tasks, task_i, items,
      pl_i, all_failed, cb, reads, status, glog, dry_run>>

pageVars == <<pfun, psrc, pcap, ppc, offset, ptracks, preqs>>

musicVars == <<upl, plorder>>

collectVars ==
    <<cprov, cfun, clib, ccap, cpc, coffset, cpage, ck, cout, tid, toffset,
      ttracks, clog>>

appVars == <<_sync_btn, after_q, workers, auth, dialog>>

vars ==
    <<matchVars, writeVars, guiVars, reports, pageVars, musicVars,
      collectVars, appVars>>

(***************************************************************************)
(* One resolve of one item against one catalog.                            *)
(***************************************************************************)
IsTrack(item) == "upc" \notin DOMAIN item

NoMatch ==
    /\ mprov = "spotify"
    /\ mitem = [name |-> "n1", artist |-> "a1"]
    /\ mcat = [isrc |-> [i \in Isrcs |-> 0],
               songs |-> [k \in Names \X Artists |-> 0],
               upc |-> [u \in Upcs |-> 0],
               albums |-> [k \in Names \X Artists |-> 0]]
    /\ mfault = "none"
    /\ mpc = "idle"
    /\ mres = [queries |-> <<>>, raised |-> FALSE, id |-> NoId]

NoWrite ==
    /\ wprov = "spotify"
    /\ wop = "add_liked_songs"
    /\ wname = None
    /\ wdesc = None
    /\ witems = <<>>
    /\ wcat = [isrc |-> [i \in Isrcs |-> 0],
               songs |-> [k \in Names \X Artists |-> 0],
               upc |-> [u \in Upcs |-> 0],
               albums |-> [k \in Names \X Artists |-> 0]]
    /\ wuid = None
    /\ wpc = "idle"
    /\ wi = 0
    /\ added = 0
    /\ failed = <<>>
    /\ track_ids = <<>>
    /\ wb = 0
    /\ wexc = "none"
    /\ ticks = <<>>
    /\ calls = <<>>

NoGui ==
    /\ direction = "spotify-to-apple"
    /\ sel = [liked |-> TRUE, playlists |-> TRUE, albums |-> TRUE]
    /\ _spotify = None
    /\ _running = FALSE
    /\ gpc = "off"
    /\ dst = None
    /\ tasks = <<>>
    /\ task_i = 0
    /\ items = <<>>
    /\ pl_i = 0
    /\ all_failed = <<>>
    /\ cb = "none"
    /\ reports = <<>>
    /\ reads = <<>>
    /\ status = ""
    /\ glog = <<>>
    /\ dry_run = FALSE

NoPage ==
    /\ pfun = "get_liked_songs"
    /\ psrc = <<>>
    /\ pcap = 100
    /\ ppc = "off"
    /\ offset = 0
    /\ ptracks = <<>>
    /\ preqs = <<>>

NoMusic ==
    /\ upl = <<>>
    /\ plorder = "last"

NoCollect ==
    /\ cprov = "apple_api"
    /\ cfun = "get_liked_songs"
    /\ clib = <<>>
    /\ ccap = 100
    /\ cpc = "off"
    /\ coffset = 0
    /\ cpage = [items |-> <<>>, next |-> FALSE]
    /\ ck = 0
    /\ cout = <<>>
    /\ tid = 0
    /\ toffset = 0
    /\ ttracks = <<>>
    /\ clog = <<>>

NoApp ==
    /\ _sync_btn = "normal"
    /\ after_q = <<>>
    /\ workers = <<>>
    /\ auth = "off"
    /\ dialog = "none"

\* everything outside the matcher, the write call, the run and the flat
\* collector stays as constructed
Elsewhere == NoMusic /\ NoCollect /\ NoApp

InitMatch ==
    /\ Elsewhere
    /\ NoPage
    /\ mprov \in {"spotify", "apple_api"}
    /\ mitem \in Tracks \cup {a \in Albums : "upc" \in DOMAIN a}
    /\ mcat \in Catalogs
    /\ IF IsTrack(mitem)
       THEN /\ mcat.upc = [u \in Upcs |-> 0]
            /\ mcat.albums = [k \in Names \X Artists |-> 0]
       ELSE /\ mcat.isrc = [i \in Isrcs |-> 0]
            /\ mcat.songs = [k \in Names \X Artists |-> 0]
    /\ mfault \in {"none", "code", "text"}
    /\ mpc = "call"
    /\ mres = [queries |-> <<>>, raised |-> FALSE, id |-> NoId]
    /\ NoWrite
    /\ NoGui

ResolveTrack ==
    /\ mpc = "call"
    /\ IsTrack(mitem)
    /\ mpc' = "done"
    /\ mres' = _search_track(mprov, mitem, mcat, mfault)
    /\ UNCHANGED <<mprov, mitem, mcat, mfault, writeVars, guiVars, reports,
                   pageVars>>
    /\ UNCHANGED <<musicVars, collectVars, appVars>>

ResolveAlbum ==
    /\ mpc = "call"
    /\ ~IsTrack(mitem)
    /\ mpc' = "done"
    /\ mres' = _search_album(mprov, mitem, mcat, mfault)
    /\ UNCHANGED <<mprov, mitem, mcat, mfault, writeVars, guiVars, reports,
                   pageVars>>
    /\ UNCHANGED <<musicVars, collectVars, appVars>>

NextMatch == ResolveTrack \/ ResolveAlbum

SpecMatch == InitMatch /\ [][NextMatch]_vars

(***************************************************************************)
(* Destination write operations.  wprov is "spotify" (spotify.py),         *)
(* "apple_api" (apple_music.py) or "applescript" (src/apple_music.py).     *)
(* Each action is one step of the operation in progress; the transport     *)
(* fault of the step, if any, is chosen by the environment.                *)
(***************************************************************************)
SpotifyAddLimit == 100

Ops == {"add_liked_songs", "create_playlist", "save_albums"}

\* the matcher a client resolves with
MatcherOf(prov) == IF prov = "apple_api" THEN "apple_api" ELSE "spotify"

\* the transport faults one item can meet
Faults(prov) ==
    IF prov = "applescript" THEN {"none", "script"}
    ELSE {"none", "code", "text", "write"}

\* The GUI imports its Spotify client from src/spotify.py, a module whose
\* writers take a progress_cb; "spotify_gui" is that client, taken to keep
\* the provider contract: it matches like spotify.py, ticks progress_cb once
\* per item, and records an item whose lookup or write raised as failed.
KeepsProviderContract(prov) == prov = "spotify_gui"

\* whether the per-item loop of the client catches the exception of an item:
\* the AppleScript client wraps the item in try/except RuntimeError, the
\* loops of spotify.py and apple_music.py have no handler
ItemErrorCaught(prov) == prov = "applescript" \/ KeepsProviderContract(prov)

\* whether the client ticks progress_cb after each item
HasProgressCb(prov) == prov = "applescript" \/ KeepsProviderContract(prov)

\* what the installed closure reports for progress_cb(done, total)
OnTick(done, total) ==
    CASE cb = "progress" ->
           <<Clamp(progress(done, total, task_i, Len(tasks)))>>
      [] cb = "pl_progress" ->
           <<Clamp(pl_progress(done, total, pl_i, Len(items), task_i,
                               Len(tasks)))>>
      [] OTHER -> <<>>

\* description or ""
OrEmpty(x) == IF Truthy(x) THEN x ELSE ""

\* faulty variant: an item without a match is counted as added
ApiItemAddsUnmatched(prov, op, item, cat, fault) ==
    LET lf == IF fault \in {"code", "text"} THEN fault ELSE "none"
        r  == IF op = "save_albums"
              THEN _search_album(MatcherOf(prov), item, cat, lf)
              ELSE _search_track(MatcherOf(prov), item, cat, lf)
        w  == [kind |-> "write",
               op   |-> IF op = "save_albums" THEN "save_album" ELSE "like",
               ids  |-> <<r.id>>]
    IN  IF r.raised
        THEN [calls |-> r.queries, res |-> "error", id |-> NoId]
        ELSE IF r.id = NoId
        THEN [calls |-> r.queries, res |-> "added", id |-> NoId]
        ELSE IF op = "create_playlist"
        THEN [calls |-> r.queries, res |-> "matched", id |-> r.id]
        ELSE [calls |-> Append(r.queries, w),
              res |-> IF fault = "write" THEN "error" ELSE "added",
              id |-> r.id]

\* one item of a loop of spotify.py / apple_music.py: the calls sent and the
\* way the item ends ("added", "matched", "failed", or "error" for an
\* exception out of the lookup or the write)
ApiItem(prov, op, item, cat, fault) ==
    LET lf == IF fault \in {"code", "text"} THEN fault ELSE "none"
        r  == IF op = "save_albums"
              THEN _search_album(MatcherOf(prov), item, cat, lf)
              ELSE _search_track(MatcherOf(prov), item, cat, lf)
        w  == [kind |-> "write",
               op   |-> IF op = "save_albums" THEN "save_album" ELSE "like",
               ids  |-> <<r.id>>]
    IN  IF r.raised
        THEN [calls |-> r.queries, res |-> "error", id |-> NoId]
        ELSE IF r.id = NoId
        THEN [calls |-> r.queries, res |-> "failed", id |-> NoId]
        ELSE IF op = "create_playlist"
        THEN [calls |-> r.queries, res |-> "matched", id |-> r.id]
        ELSE [calls |-> Append(r.queries, w),
              res |-> IF fault = "write" THEN "error" ELSE "added",
              id |-> r.id]

\* faulty variant: the except branch of the AppleScript loops skips the item
\* without recording it ("continue", as get_playlists does)
ScriptItemSkipsError(op, name, item, cat, fault) ==
    LET key   == <<item.name, item.artist>>
        found == IF op = "save_albums"
                 THEN Count(cat.albums, key) > 0
                 ELSE Count(cat.songs, key) > 0
        c     == [kind |-> "script",
                  op |-> CASE op = "add_liked_songs" -> "love"
                           [] op = "create_playlist" -> "duplicate"
                           [] OTHER -> "album_check",
                  name |-> item.name, artist |-> item.artist,
                  playlist |-> IF op = "create_playlist" THEN name ELSE None]
    IN  [calls |-> <<c>>,
         res |-> IF fault = "script" THEN "skipped"
                 ELSE IF found THEN "added" ELSE "failed",
         id |-> NoId]

\* one item of a loop of src/apple_music.py: one script that looks the item
\* up in the local library and, when found, loves / duplicates it
ScriptItem(op, name, item, cat, fault) ==
    LET key   == <<item.name, item.artist>>
        found == IF op = "save_albums"
                 THEN Count(cat.albums, key) > 0
                 ELSE Count(cat.songs, key) > 0
        c     == [kind |-> "script",
                  op |-> CASE op = "add_liked_songs" -> "love"
                           [] op = "create_playlist" -> "duplicate"
                           [] OTHER -> "album_check",
                  name |-> item.name, artist |-> item.artist,
                  playlist |-> IF op = "create_playlist" THEN name ELSE None]
    IN  [calls |-> <<c>>,
         res |-> IF fault = "script" THEN "error"
                 ELSE IF found THEN "added" ELSE "failed",
         id |-> NoId]

\* where a call goes once its loop is over: the API clients submit the
\* matched identifiers of a playlist, if any; everything else returns
LoopExit(prov, op, ids) ==
    IF op = "create_playlist" /\ prov # "applescript" /\ Len(ids) > 0
    THEN "populate"
    ELSE "returned"

\* faulty variant: create_playlist matches its tracks before it creates
\* the playlist
EntryPcMatchFirst(prov, op, its) ==
    IF prov = "applescript" /\ op = "add_liked_songs" THEN "prelude"
    ELSE IF Len(its) > 0 THEN "loop"
    ELSE IF op = "create_playlist" THEN "create"
    ELSE "returned"

\* faulty variant: a playlist without tracks is not created
EntryPcSkipsEmpty(prov, op, its) ==
    IF op = "create_playlist" /\ Len(its) > 0 THEN "create"
    ELSE IF prov = "applescript" /\ op = "add_liked_songs" THEN "prelude"
    ELSE IF Len(its) > 0 THEN "loop"
    ELSE "returned"

\* where a call starts
EntryPc(prov, op, its) ==
    IF op = "create_playlist" THEN "create"
    ELSE IF prov = "applescript" /\ op = "add_liked_songs" THEN "prelude"
    ELSE IF Len(its) > 0 THEN "loop"
    ELSE "returned"

\* the first element of the pair a call returns
ReturnedAdded ==
    IF wop = "create_playlist" /\ wprov # "applescript"
    THEN Len(track_ids)
    ELSE added

\* the call of a write operation: its arguments and fresh locals
Enter(prov, op, name, desc, its) ==
    /\ wprov' = prov
    /\ wop' = op
    /\ wname' = name
    /\ wdesc' = desc
    /\ witems' = its
    /\ wpc' = EntryPc(prov, op, its)
    /\ wi' = 0
    /\ added' = 0
    /\ failed' = <<>>
    /\ track_ids' = <<>>
    /\ wb' = 0
    /\ wexc' = "none"
    /\ ticks' = <<>>

\* AppleScript add_liked_songs: the library size is counted once, for the
\* log; a RuntimeError of that script is caught
WPrelude ==
    /\ wpc = "prelude"
    /\ calls' = Append(calls, [kind |-> "script", op |-> "count_library"])
    /\ wpc' = IF Len(witems) > 0 THEN "loop" ELSE "returned"
    /\ UNCHANGED <<wprov, wop, wname, wdesc, witems, wcat, wuid, wi, added,
                   failed, track_ids, wb, wexc, ticks>>
    /\ UNCHANGED <<matchVars, pageVars, guiVars, reports>>
    /\ UNCHANGED <<musicVars, collectVars, appVars>>

\* the number of the create_playlist call that made the newest playlist
LastMade(pls) ==
    Cardinality({i \in DOMAIN pls : pls[i].made > 0})

\* make new user playlist with properties {name: ...}: Music makes a
\* playlist of that name whether or not one exists, and lists it before or
\* after the ones it has
MakePlaylist(pls, order, name) ==
    LET new == [name |-> name, tracks |-> <<>>, made |-> LastMade(pls) + 1]
    IN  IF order = "first" THEN <<new>> \o pls ELSE Append(pls, new)

\* user playlist "<name>": the first playlist of that name in Music's order
ByName(pls, name) ==
    CHOOSE i \in DOMAIN pls :
        /\ pls[i].name = name
        /\ \A j \in DOMAIN pls : pls[j].name = name => i <= j

\* duplicate (item 1 of results) to user playlist "<name>"
Duplicate(pls, name, item) ==
    [pls EXCEPT ![ByName(pls, name)].tracks =
        Append(@, [name |-> item.name, artist |-> item.artist,
                   call |-> LastMade(pls)])]

\* the destination call that creates the playlist
CreateCall ==
    IF wprov = "applescript"
    THEN [kind |-> "script", op |-> "make_playlist", name |-> wname]
    ELSE [kind |-> "write", op |-> "create_playlist", name |-> wname,
          description |-> OrEmpty(wdesc)]

\* create_playlist up to its loop: the Spotify client first needs its user
\* id (sp.current_user(), cached), then the playlist is created; an
\* exception of either call leaves create_playlist
WCreate ==
    /\ wpc = "create"
    /\ \E fault \in {"none", "user", "create"} :
         LET needUser == wprov = "spotify" /\ wuid = None
             userCall == [kind |-> "write", op |-> "current_user"]
             sent     == IF needUser THEN <<userCall>> ELSE <<>>
         IN  IF needUser /\ fault = "user"
             THEN /\ calls' = calls \o sent
                  /\ wpc' = "raised"
                  /\ wexc' = "user"
                  /\ wuid' = wuid
                  /\ upl' = upl
             ELSE /\ calls' = (calls \o sent) \o <<CreateCall>>
                  /\ wuid' = IF needUser THEN "me" ELSE wuid
                  /\ upl' = IF wprov = "applescript" /\ fault # "create"
                            THEN MakePlaylist(upl, plorder, wname)
                            ELSE upl
                  /\ IF fault = "create"
                     THEN wpc' = "raised" /\ wexc' = "create"
                     ELSE /\ wpc' = IF Len(witems) > 0 THEN "loop"
                                    ELSE "returned"
                          /\ wexc' = wexc
    /\ UNCHANGED <<wprov, wop, wname, wdesc, witems, wcat, wi, added,
                   failed, track_ids, wb, ticks>>
    /\ UNCHANGED <<matchVars, pageVars, guiVars, reports>>
    /\ UNCHANGED <<plorder, collectVars, appVars>>

\* one iteration of the loop over the items
WItem ==
    /\ wpc = "loop"
    /\ \E fault \in Faults(wprov) :
         LET item  == witems[wi + 1]
             o     == IF wprov = "applescript"
                      THEN ScriptItem(wop, wname, item, wcat, fault)
                      ELSE ApiItem(wprov, wop, item, wcat, fault)
             fatal == o.res = "error" /\ ~ItemErrorCaught(wprov)
         IN  /\ calls' = calls \o o.calls
             /\ IF fatal
                THEN /\ wpc' = "raised"
                     /\ wexc' = "item"
                     /\ UNCHANGED <<wi, added, failed, track_ids, ticks,
                                    reports, upl>>
                ELSE /\ wi' = wi + 1
                     /\ added' = IF o.res = "added" THEN added + 1 ELSE added
                     /\ track_ids' = IF o.res = "matched"
                                     THEN Append(track_ids, o.id)
                                     ELSE track_ids
                     /\ failed' = IF o.res \in {"failed", "error"}
                                  THEN Append(failed, item)
                                  ELSE failed
                     /\ ticks' = IF HasProgressCb(wprov)
                                 THEN Append(ticks, <<wi + 1, Len(witems)>>)
                                 ELSE ticks
                     /\ reports' = IF HasProgressCb(wprov)
                                   THEN reports \o OnTick(wi + 1, Len(witems))
                                   ELSE reports
                     /\ wpc' = IF wi + 1 < Len(witems) THEN "loop"
                               ELSE LoopExit(wprov, wop, track_ids')
                     /\ wexc' = wexc
                     /\ upl' = IF /\ wprov = "applescript"
                                  /\ wop = "create_playlist"
                                  /\ o.res = "added"
                               THEN Duplicate(upl, wname, item)
                               ELSE upl
    /\ UNCHANGED <<wprov, wop, wname, wdesc, witems, wcat, wuid, wb>>
    /\ UNCHANGED <<matchVars, pageVars, guiVars>>
    /\ UNCHANGED <<plorder, collectVars, appVars>>

\* faulty variant: everything that is left goes into one call
BatchEndUnbounded(b, n) == n

\* the end of the batch that starts at offset b
BatchEnd(b, n) == IF b + SpotifyAddLimit < n THEN b + SpotifyAddLimit ELSE n

\* the submission of the matched identifiers: Spotify takes at most 100 per
\* playlist_add_items call, the Apple Music API takes them in one POST
WPopulate ==
    /\ wpc = "populate"
    /\ \E fault \in {"none", "write"} :
         LET n    == Len(track_ids)
             to   == IF wprov = "apple_api" THEN n ELSE BatchEnd(wb, n)
             call == [kind |-> "write", op |-> "add_items",
                      ids |-> SubSeq(track_ids, wb + 1, to)]
         IN  /\ calls' = Append(calls, call)
             /\ IF fault = "write"
                THEN wpc' = "raised" /\ wexc' = "populate" /\ wb' = wb
                ELSE /\ wb' = to
                     /\ wpc' = IF to < n THEN "populate" ELSE "returned"
                     /\ wexc' = wexc
    /\ UNCHANGED <<wprov, wop, wname, wdesc, witems, wcat, wuid, wi, added,
                   failed, track_ids, ticks>>
    /\ UNCHANGED <<matchVars, pageVars, guiVars, reports>>
    /\ UNCHANGED <<musicVars, collectVars, appVars>>

(***************************************************************************)
(* One write operation called on its own.                                  *)
(***************************************************************************)
WriteProviders == {"spotify", "apple_api", "applescript"}

WriteTracks ==
    {[name |-> "n1", artist |-> "a1", isrc |-> "I1"],
     [name |-> "n2", artist |-> "a1"]}

WriteAlbums ==
    {[name |-> "n1", artist |-> "a1", upc |-> "U1"],
     [name |-> "n2", artist |-> "a1"]}

\* the sequences of at most n elements of S
SeqUpTo(S, n) == UNION {[1..k -> S] : k \in 0..n}

\* destinations that hold, or lack, each of the items above
WriteCatalogs ==
    {c \in Catalogs :
        /\ c.isrc["I1"] <= 1 /\ c.isrc["I2"] = 0
        /\ \A k \in Names \X Artists : c.songs[k] <= 1 /\ c.albums[k] <= 1
        /\ c.upc["U1"] = 0}

InitWrite ==
    /\ NoCollect
    /\ NoApp
    /\ NoPage
    /\ NoMatch
    /\ NoGui
    /\ wprov \in WriteProviders
    /\ wop \in Ops
    /\ wname = (IF wop = "create_playlist" THEN "Road Trip" ELSE None)
    /\ wdesc \in (IF wop = "create_playlist" THEN {None, "d"} ELSE {None})
    /\ witems \in SeqUpTo(IF wop = "save_albums" THEN WriteAlbums
                          ELSE WriteTracks, MaxItems)
    /\ wcat \in WriteCatalogs
    /\ IF wop = "save_albums"
       THEN \A k \in Names \X Artists : wcat.songs[k] = 0
       ELSE \A k \in Names \X Artists : wcat.albums[k] = 0
    /\ IF wop = "save_albums" THEN wcat.isrc["I1"] = 0 ELSE TRUE
    /\ wuid \in (IF wprov = "spotify" /\ wop = "create_playlist"
                 THEN {None, "me"} ELSE {None})
    /\ wpc = EntryPc(wprov, wop, witems)
    /\ wi = 0
    /\ added = 0
    /\ failed = <<>>
    /\ track_ids = <<>>
    /\ wb = 0
    /\ wexc = "none"
    /\ ticks = <<>>
    /\ calls = <<>>
    /\ IF wprov = "applescript" /\ wop = "create_playlist"
       THEN /\ upl \in {<<>>, <<[name |-> "Road Trip", tracks |-> <<>>,
                                 made |-> 0]>>}
            /\ plorder \in {"first", "last"}
       ELSE NoMusic

NextWrite == WPrelude \/ WCreate \/ WItem \/ WPopulate

SpecWrite == InitWrite /\ [][NextWrite]_vars

(***************************************************************************)
(* SpotifyClient.create_playlist on playlists long enough to need several  *)
(* playlist_add_items calls.  The tracks of the playlist are numbered in   *)
(* source order; the destination knows all of them but every               *)
(* BatchMissEvery-th.                                                      *)
(***************************************************************************)
MaxBatchTracks == 230

BatchMissEvery == 10

\* the k-th track of the playlist (no code: it is matched by text)
BatchTrack(k) == [name |-> k, artist |-> "a1"]

BatchCatalog ==
    [isrc |-> [i \in Isrcs |-> 0],
     songs |-> [key \in (1..MaxBatchTracks) \X Artists |->
                  IF key[1] % BatchMissEvery = 0 THEN 0 ELSE 1],
     upc |-> [u \in Upcs |-> 0],
     albums |-> [key \in Names \X Artists |-> 0]]

InitBatch ==
    /\ Elsewhere
    /\ NoPage
    /\ NoMatch
    /\ NoGui
    /\ wprov = "spotify"
    /\ wop = "create_playlist"
    /\ wname = "Road Trip"
    /\ wdesc = None
    /\ witems \in {[k \in 1..n |-> BatchTrack(k)] : n \in 0..MaxBatchTracks}
    /\ wcat = BatchCatalog
    /\ wuid = "me"
    /\ wpc = EntryPc(wprov, wop, witems)
    /\ wi = 0
    /\ added = 0
    /\ failed = <<>>
    /\ track_ids = <<>>
    /\ wb = 0
    /\ wexc = "none"
    /\ ticks = <<>>
    /\ calls = <<>>

NextBatch == WCreate \/ WItem \/ WPopulate

SpecBatch == InitBatch /\ [][NextBatch]_vars

(***************************************************************************)
(* The GUI run: MusicSyncApp._start_sync and the worker thread's           *)
(* _run_sync.  Nobody touches the window while the run proceeds, so the    *)
(* selection and the direction are those of the click; the source library  *)
(* and the transport faults are chosen by the environment as the run       *)
(* meets them.                                                             *)
(***************************************************************************)
\* faulty variant: a track already in the list is not listed again
ExtendNew(all, f) ==
    LET New(x) == \A i \in DOMAIN all : all[i] # x
    IN  all \o SelectSeq(f, New)

\* all_failed.extend(failed)
Extend(all, f) == all \o f

\* tasks, in the order _run_sync appends them
TaskList(s) ==
    (IF s.liked THEN <<"liked songs">> ELSE <<>>)
        \o (IF s.playlists THEN <<"playlists">> ELSE <<>>)
        \o (IF s.albums THEN <<"albums">> ELSE <<>>)

\* the client whose writers the run uses
Destination(dir) ==
    IF dir = "spotify-to-apple" THEN "applescript" ELSE "spotify_gui"

\* the write operation of a task
WriterOf(label) ==
    CASE label = "liked songs" -> "add_liked_songs"
      [] label = "playlists" -> "create_playlist"
      [] OTHER -> "save_albums"

\* a track, an album and a playlist as the source client of the direction
\* returns them
SourceTrack(dir) ==
    IF dir = "spotify-to-apple"
    THEN [name |-> "n1", artist |-> "a1", isrc |-> "I1"]
    ELSE [name |-> "n1", artist |-> "a1"]

SourceAlbum(dir) ==
    IF dir = "spotify-to-apple"
    THEN [name |-> "n1", artist |-> "a1", isrc |-> None, upc |-> "U1"]
    ELSE [name |-> "n1", artist |-> "a1"]

SourcePlaylist(dir, n) ==
    IF dir = "spotify-to-apple"
    THEN [name |-> "Road Trip", description |-> "d",
          tracks |-> [k \in 1..n |-> SourceTrack(dir)]]
    ELSE [name |-> "Road Trip", tracks |-> [k \in 1..n |-> SourceTrack(dir)]]

\* what reader() can return for a task
Readable(dir, label) ==
    CASE label = "liked songs" ->
           {[k \in 1..n |-> SourceTrack(dir)] : n \in 0..MaxLibrary}
      [] label = "playlists" ->
           SeqUpTo({SourcePlaylist(dir, n) : n \in 0..MaxTracks}, MaxPlaylists)
      [] OTHER ->
           {[k \in 1..n |-> SourceAlbum(dir)] : n \in 0..MaxLibrary}

\* destinations that hold the source's items, or none of them
GuiCatalogs ==
    {c \in Catalogs :
        /\ c.isrc["I1"] <= 1 /\ c.isrc["I2"] = 0 /\ c.upc["U1"] = 0
        /\ c.songs[<<"n1", "a1">>] = c.isrc["I1"]
        /\ c.albums[<<"n1", "a1">>] = c.isrc["I1"]
        /\ c.songs[<<"n2", "a1">>] = 0 /\ c.albums[<<"n2", "a1">>] = 0}

\* the description the writer of the direction is handed: the lambda that
\* wraps the AppleScript create_playlist drops its second argument
WriterDescription(dir, pl) ==
    IF dir = "spotify-to-apple" THEN None
    ELSE IF "description" \in DOMAIN pl THEN pl.description ELSE ""

\* _set_progress(fraction)
_set_progress(fraction) == reports' = Append(reports, Clamp(fraction))

InitGui ==
    /\ Elsewhere
    /\ NoPage
    /\ NoMatch
    /\ NoWrite
    /\ direction \in {"spotify-to-apple", "apple-to-spotify"}
    /\ sel \in [liked : BOOLEAN, playlists : BOOLEAN, albums : BOOLEAN]
    /\ _spotify = "client"
    /\ _running = FALSE
    /\ gpc = "idle"
    /\ dst = None
    /\ tasks = <<>>
    /\ task_i = 0
    /\ items = <<>>
    /\ pl_i = 0
    /\ all_failed = <<>>
    /\ cb = "none"
    /\ reports = <<>>
    /\ reads = <<>>
    /\ status = ""
    /\ glog = <<>>
    /\ dry_run = FALSE

\* a click on Sync that passes the three checks
_start_sync ==
    /\ gpc = "idle"
    /\ ~_running
    /\ _spotify # None
    /\ sel.liked \/ sel.playlists \/ sel.albums
    /\ _running' = TRUE
    /\ _set_progress(FZero)
    /\ gpc' = "begin"
    /\ \E c \in GuiCatalogs : wcat' = c
    /\ UNCHANGED <<wprov, wop, wname, wdesc, witems, wuid, wpc, wi, added,
                   failed, track_ids, wb, wexc, ticks, calls>>
    /\ UNCHANGED dry_run
    /\ UNCHANGED <<direction, sel, _spotify, dst, tasks, task_i, items, pl_i,
                   all_failed, cb, reads, status, glog>>
    /\ UNCHANGED <<matchVars, pageVars>>
    /\ UNCHANGED <<musicVars, collectVars, appVars>>

\* _run_sync up to its loop: the direction picks the readers and writers,
\* the selection the tasks
RunBegin ==
    /\ gpc = "begin"
    /\ dst' = Destination(direction)
    /\ tasks' = TaskList(sel)
    /\ task_i' = 0
    /\ gpc' = IF TaskList(sel) = <<>> THEN "finish" ELSE "read"
    /\ UNCHANGED dry_run
    /\ UNCHANGED <<direction, sel, _spotify, _running, items, pl_i,
                   all_failed, cb, reads, status, glog, reports>>
    /\ UNCHANGED <<matchVars, pageVars, writeVars>>
    /\ UNCHANGED <<musicVars, collectVars, appVars>>

\* items = reader(): the source collection of the task, or an exception
RunRead ==
    /\ gpc = "read"
    /\ reads' = Append(reads, tasks[task_i + 1])
    /\ status' = "Reading"
    /\ \/ /\ gpc' = "except"
          /\ UNCHANGED <<items, pl_i, all_failed>>
       \/ /\ items' \in Readable(direction, tasks[task_i + 1])
          /\ pl_i' = 0
          /\ all_failed' = <<>>
          /\ gpc' = IF tasks[task_i + 1] = "playlists" /\ items' = <<>>
                    THEN "task_end" ELSE "call"
    /\ UNCHANGED dry_run
    /\ UNCHANGED <<direction, sel, _spotify, _running, dst, tasks, task_i,
                   cb, glog, reports>>
    /\ UNCHANGED <<matchVars, pageVars, writeVars>>
    /\ UNCHANGED <<musicVars, collectVars, appVars>>

\* the call of the task's writer: once with all items, or once per playlist
RunCall ==
    /\ gpc = "call"
    /\ status' = "Writing"
    /\ IF tasks[task_i + 1] = "playlists"
       THEN /\ Enter(dst, "create_playlist", items[pl_i + 1].name,
                     WriterDescription(direction, items[pl_i + 1]),
                     items[pl_i + 1].tracks)
            /\ cb' = "pl_progress"
       ELSE /\ Enter(dst, WriterOf(tasks[task_i + 1]), None, None, items)
            /\ cb' = "progress"
    /\ gpc' = "write"
    /\ UNCHANGED dry_run
    /\ UNCHANGED <<direction, sel, _spotify, _running, dst, tasks, task_i,
                   items, pl_i, all_failed, reads, glog, reports>>
    /\ UNCHANGED <<matchVars, pageVars, wcat, wuid, calls>>
    /\ UNCHANGED <<musicVars, collectVars, appVars>>

\* the writer returned (added, failed)
RunReturn ==
    /\ gpc = "write"
    /\ wpc = "returned"
    /\ wpc' = "idle"
    /\ IF tasks[task_i + 1] = "playlists"
       THEN /\ all_failed' = Extend(all_failed, failed)
            /\ pl_i' = pl_i + 1
            /\ gpc' = IF pl_i + 1 < Len(items) THEN "call" ELSE "task_end"
       ELSE /\ gpc' = "task_end"
            /\ UNCHANGED <<all_failed, pl_i>>
    /\ UNCHANGED dry_run
    /\ UNCHANGED <<direction, sel, _spotify, _running, dst, tasks, task_i,
                   items, cb, reads, status, glog, reports>>
    /\ UNCHANGED <<wprov, wop, wname, wdesc, witems, wcat, wuid, wi, added,
                   failed, track_ids, wb, wexc, ticks, calls>>
    /\ UNCHANGED <<matchVars, pageVars>>
    /\ UNCHANGED <<musicVars, collectVars, appVars>>

\* the writer raised: the exception leaves the loop over the tasks
RunRaise ==
    /\ gpc = "write"
    /\ wpc = "raised"
    /\ wpc' = "idle"
    /\ gpc' = "except"
    /\ UNCHANGED dry_run
    /\ UNCHANGED <<direction, sel, _spotify, _running, dst, tasks, task_i,
                   items, pl_i, all_failed, cb, reads, status, glog, reports>>
    /\ UNCHANGED <<wprov, wop, wname, wdesc, witems, wcat, wuid, wi, added,
                   failed, track_ids, wb, wexc, ticks, calls>>
    /\ UNCHANGED <<matchVars, pageVars>>
    /\ UNCHANGED <<musicVars, collectVars, appVars>>

\* the end of one task: self._set_progress((task_i + 1) / total_tasks)
RunTaskEnd ==
    /\ gpc = "task_end"
    /\ _set_progress(task_done(task_i, Len(tasks)))
    /\ task_i' = task_i + 1
    /\ gpc' = IF task_i + 1 < Len(tasks) THEN "read" ELSE "finish"
    /\ UNCHANGED dry_run
    /\ UNCHANGED <<direction, sel, _spotify, _running, dst, tasks, items,
                   pl_i, all_failed, cb, reads, status, glog>>
    /\ UNCHANGED <<matchVars, pageVars, writeVars>>
    /\ UNCHANGED <<musicVars, collectVars, appVars>>

\* after the loop: the final report, "Done.", and the finally block
RunFinish ==
    /\ gpc = "finish"
    /\ _set_progress(FOne)
    /\ status' = "Done."
    /\ glog' = Append(glog, "Transfer complete")
    /\ _running' = FALSE
    /\ gpc' = "done"
    /\ UNCHANGED dry_run
    /\ UNCHANGED <<direction, sel, _spotify, dst, tasks, task_i, items, pl_i,
                   all_failed, cb, reads>>
    /\ UNCHANGED <<matchVars, pageVars, writeVars>>
    /\ UNCHANGED <<musicVars, collectVars, appVars>>

\* except Exception: the error is logged; then the finally block
RunExcept ==
    /\ gpc = "except"
    /\ status' = "Transfer failed"
    /\ glog' = Append(glog, "Error")
    /\ _running' = FALSE
    /\ gpc' = "failed"
    /\ UNCHANGED dry_run
    /\ UNCHANGED <<direction, sel, _spotify, dst, tasks, task_i, items, pl_i,
                   all_failed, cb, reads, reports>>
    /\ UNCHANGED <<matchVars, pageVars, writeVars>>
    /\ UNCHANGED <<musicVars, collectVars, appVars>>

NextGui ==
    \/ _start_sync
    \/ RunBegin
    \/ RunRead
    \/ RunCall
    \/ RunReturn
    \/ RunRaise
    \/ RunTaskEnd
    \/ RunFinish
    \/ RunExcept
    \/ WPrelude
    \/ WCreate
    \/ WItem
    \/ WPopulate

SpecGui == InitGui /\ [][NextGui]_vars

(***************************************************************************)
(* The command-line run: main of sync.py and the three transfer methods    *)
(* of TransferEngine.  The destination is the Spotify client of spotify.py *)
(* or the Apple Music API client of apple_music.py; no exception is        *)
(* caught anywhere, so one that leaves a reader or a writer ends the       *)
(* process.                                                                *)
(***************************************************************************)
MaxCliPlaylists == 2

MaxCliTracks == 1

\* faulty variant: the playlists are transferred first
CliOrderPlaylistsFirst == <<"playlists", "liked songs", "albums">>

\* the fixed order of the three ifs of main
CliOrder == <<"liked songs", "playlists", "albums">>

\* args.liked_songs / args.playlists / args.albums
CliSelected(s, label) ==
    CASE label = "liked songs" -> s.liked
      [] label = "playlists" -> s.playlists
      [] OTHER -> s.albums

\* TransferEngine._clients: the destination of the direction
CliDestination(dir) ==
    IF dir = "spotify-to-apple" THEN "apple_api" ELSE "spotify"

\* the tracks the API readers return: both normalise to a dict that always
\* carries the key "isrc", None when the source knows no code
CliTracks ==
    {[name |-> "n1", artist |-> "a1", isrc |-> "I1"],
     [name |-> "n2", artist |-> "a1", isrc |-> None]}

CliAlbum == [name |-> "n1", artist |-> "a1", upc |-> "U1"]

\* get_playlists: every playlist carries name, description and tracks
CliPlaylists ==
    {[name |-> "Road Trip", description |-> d, tracks |-> t] :
        d \in {"", "d"}, t \in SeqUpTo(CliTracks, MaxCliTracks)}

\* what the reader of a task can return
CliReadable(label) ==
    CASE label = "liked songs" ->
           {[k \in 1..n |-> t] : n \in 0..MaxLibrary, t \in CliTracks}
      [] label = "playlists" ->
           SeqUpTo({p \in CliPlaylists :
                       p.description = "d" \/ p.tracks = <<>>},
                   MaxCliPlaylists)
      [] OTHER -> {[k \in 1..n |-> CliAlbum] : n \in 0..MaxLibrary}

InitCli ==
    /\ Elsewhere
    /\ NoPage
    /\ NoMatch
    /\ NoWrite
    /\ direction \in {"spotify-to-apple", "apple-to-spotify"}
    /\ sel \in {s \in [liked : BOOLEAN, playlists : BOOLEAN,
                       albums : BOOLEAN] :
                   s.liked \/ s.playlists \/ s.albums}
    /\ dry_run \in BOOLEAN
    /\ _spotify = "client"
    /\ _running = FALSE
    /\ gpc = "cli_main"
    /\ dst = None
    /\ tasks = <<>>
    /\ task_i = 0
    /\ items = <<>>
    /\ pl_i = 0
    /\ all_failed = <<>>
    /\ cb = "none"
    /\ reports = <<>>
    /\ reads = <<>>
    /\ status = ""
    /\ glog = <<>>

\* main up to the three ifs: the clients and the engine are built
CliMain ==
    /\ gpc = "cli_main"
    /\ dst' = CliDestination(direction)
    /\ task_i' = 0
    /\ gpc' = "cli_if"
    /\ \E c \in GuiCatalogs : wcat' = c
    /\ UNCHANGED <<wprov, wop, wname, wdesc, witems, wuid, wpc, wi, added,
                   failed, track_ids, wb, wexc, ticks, calls>>
    /\ UNCHANGED dry_run
    /\ UNCHANGED <<direction, sel, _spotify, _running, tasks, items, pl_i,
                   all_failed, cb, reads, status, glog, reports>>
    /\ UNCHANGED <<matchVars, pageVars>>
    /\ UNCHANGED <<musicVars, collectVars, appVars>>

\* one of the ifs of main: an unselected task is passed over, a selected
\* one is called; after the third, "Done." is printed
CliIf ==
    /\ gpc = "cli_if"
    /\ IF task_i = Len(CliOrder)
       THEN /\ gpc' = "cli_done"
            /\ glog' = Append(glog, "Done.")
            /\ UNCHANGED <<task_i, tasks>>
       ELSE IF CliSelected(sel, CliOrder[task_i + 1])
       THEN /\ gpc' = "cli_read"
            /\ tasks' = Append(tasks, CliOrder[task_i + 1])
            /\ UNCHANGED <<task_i, glog>>
       ELSE /\ task_i' = task_i + 1
            /\ UNCHANGED <<gpc, tasks, glog>>
    /\ UNCHANGED dry_run
    /\ UNCHANGED <<direction, sel, _spotify, _running, dst, items, pl_i,
                   all_failed, cb, reads, status, reports>>
    /\ UNCHANGED <<matchVars, pageVars, writeVars>>
    /\ UNCHANGED <<musicVars, collectVars, appVars>>

\* faulty variant: transfer_albums lacks the dry-run return
DryReturnButAlbums(dry, label) == dry /\ label # "albums"

\* if self.dry_run: ... return, the same in the three transfer methods
DryReturn(dry, label) == dry

\* transfer_*: the source collection is read; an empty one and a dry run
\* return at once, otherwise the writer is to be called
CliRead ==
    /\ gpc = "cli_read"
    /\ reads' = Append(reads, CliOrder[task_i + 1])
    /\ \/ /\ gpc' = "cli_crash"
          /\ UNCHANGED <<items, pl_i, all_failed, task_i, glog>>
       \/ /\ items' \in CliReadable(CliOrder[task_i + 1])
          /\ pl_i' = 0
          /\ all_failed' = <<>>
          /\ IF items' = <<>>
             THEN /\ glog' = Append(glog, "none found")
                  /\ task_i' = task_i + 1
                  /\ gpc' = "cli_if"
             ELSE IF DryReturn(dry_run, CliOrder[task_i + 1])
             THEN /\ glog' = Append(glog, "would transfer")
                  /\ task_i' = task_i + 1
                  /\ gpc' = "cli_if"
             ELSE /\ gpc' = "cli_call"
                  /\ UNCHANGED <<task_i, glog>>
    /\ UNCHANGED dry_run
    /\ UNCHANGED <<direction, sel, _spotify, _running, dst, tasks, cb,
                   status, reports>>
    /\ UNCHANGED <<matchVars, pageVars, writeVars>>
    /\ UNCHANGED <<musicVars, collectVars, appVars>>

\* the call of the writer: once with all items, or once per playlist
CliCall ==
    /\ gpc = "cli_call"
    /\ IF CliOrder[task_i + 1] = "playlists"
       THEN Enter(dst, "create_playlist", items[pl_i + 1].name,
                  items[pl_i + 1].description, items[pl_i + 1].tracks)
       ELSE Enter(dst, WriterOf(CliOrder[task_i + 1]), None, None, items)
    /\ gpc' = "cli_write"
    /\ UNCHANGED dry_run
    /\ UNCHANGED <<direction, sel, _spotify, _running, dst, tasks, task_i,
                   items, pl_i, all_failed, cb, reads, status, glog, reports>>
    /\ UNCHANGED <<matchVars, pageVars, wcat, wuid, calls>>
    /\ UNCHANGED <<musicVars, collectVars, appVars>>

\* the writer returned (added, failed): the summary is printed, the
\* playlists task extends all_failed and goes on to the next playlist
CliReturn ==
    /\ gpc = "cli_write"
    /\ wpc = "returned"
    /\ wpc' = "idle"
    /\ IF CliOrder[task_i + 1] = "playlists"
       THEN /\ all_failed' = Extend(all_failed, failed)
            /\ pl_i' = pl_i + 1
            /\ IF pl_i + 1 < Len(items)
               THEN /\ gpc' = "cli_call"
                    /\ UNCHANGED <<task_i, glog>>
               ELSE /\ gpc' = "cli_if"
                    /\ task_i' = task_i + 1
                    /\ glog' = IF all_failed' # <<>>
                               THEN Append(glog, <<"unmatched", all_failed'>>)
                               ELSE glog
       ELSE /\ gpc' = "cli_if"
            /\ task_i' = task_i + 1
            /\ glog' = IF failed # <<>>
                       THEN Append(glog, <<"unmatched", failed>>)
                       ELSE glog
            /\ UNCHANGED <<all_failed, pl_i>>
    /\ UNCHANGED dry_run
    /\ UNCHANGED <<direction, sel, _spotify, _running, dst, tasks, items,
                   cb, reads, status, reports>>
    /\ UNCHANGED <<wprov, wop, wname, wdesc, witems, wcat, wuid, wi, added,
                   failed, track_ids, wb, wexc, ticks, calls>>
    /\ UNCHANGED <<matchVars, pageVars>>
    /\ UNCHANGED <<musicVars, collectVars, appVars>>

\* the writer raised: nothing catches the exception, the process ends
CliRaise ==
    /\ gpc = "cli_write"
    /\ wpc = "raised"
    /\ wpc' = "idle"
    /\ gpc' = "cli_crash"
    /\ UNCHANGED dry_run
    /\ UNCHANGED <<direction, sel, _spotify, _running, dst, tasks, task_i,
                   items, pl_i, all_failed, cb, reads, status, glog, reports>>
    /\ UNCHANGED <<wprov, wop, wname, wdesc, witems, wcat, wuid, wi, added,
                   failed, track_ids, wb, wexc, ticks, calls>>
    /\ UNCHANGED <<matchVars, pageVars>>
    /\ UNCHANGED <<musicVars, collectVars, appVars>>

NextCli ==
    \/ CliMain
    \/ CliIf
    \/ CliRead
    \/ CliCall
    \/ CliReturn
    \/ CliRaise
    \/ WCreate
    \/ WItem
    \/ WPopulate

SpecCli == InitCli /\ [][NextCli]_vars

(***************************************************************************)
(* The paged collectors of the Apple Music API client: get_liked_songs     *)
(* and _get_playlist_tracks of apple_music.py (the loops of get_playlists  *)
(* and get_saved_albums are the same).  The library items are numbered in  *)
(* source order; the server answers a request with the items from          *)
(* `offset` on, at most `limit` and at most its own cap of them.           *)
(***************************************************************************)
MaxSource == 250

\* limit = 100
PageLimit == 100

\* the page sizes a server may cap its answers at
ServerCaps == {PageLimit, PageLimit \div 2}

Min(a, b) == IF a < b THEN a ELSE b

\* data.get("data", []) of the answer to {"limit": limit, "offset": off}
Page(src, cap, off, limit) ==
    IF off >= Len(src) THEN <<>>
    ELSE SubSeq(src, off + 1, Min(Len(src), off + Min(limit, cap)))

\* the path a collector requests
PagePath(fun) ==
    IF fun = "get_liked_songs" THEN "/me/library/songs"
    ELSE "/me/library/playlists/{id}/tracks"

\* faulty variant: a full page ends the loop as well
LastPageOrFull(n, limit) == n <= limit

\* if len(items) < limit: break
LastPage(n, limit) == n < limit

InitPage ==
    /\ Elsewhere
    /\ NoMatch
    /\ NoWrite
    /\ NoGui
    /\ pfun \in {"get_liked_songs", "_get_playlist_tracks"}
    /\ psrc \in {[k \in 1..n |-> k] : n \in 0..MaxSource}
    /\ pcap \in ServerCaps
    /\ ppc = "get"
    /\ offset = 0
    /\ ptracks = <<>>
    /\ preqs = <<>>

\* one iteration of `while True`: the request, which may raise, the items
\* of the page appended, and the test that ends the loop
PageGet ==
    /\ ppc = "get"
    /\ preqs' = Append(preqs, [path |-> PagePath(pfun), limit |-> PageLimit,
                               offset |-> offset])
    /\ \/ /\ ppc' = "raised"
          /\ UNCHANGED <<offset, ptracks>>
       \/ LET page == Page(psrc, pcap, offset, PageLimit)
          IN  /\ ptracks' = ptracks \o page
              /\ IF LastPage(Len(page), PageLimit)
                 THEN ppc' = "returned" /\ offset' = offset
                 ELSE ppc' = "get" /\ offset' = offset + PageLimit
    /\ UNCHANGED <<pfun, psrc, pcap>>
    /\ UNCHANGED <<matchVars, writeVars, guiVars, reports>>
    /\ UNCHANGED <<musicVars, collectVars, appVars>>

NextPage == PageGet

SpecPage == InitPage /\ [][NextPage]_vars

(***************************************************************************)
(* Properties of the identity matcher (checked under SpecMatch).           *)
(***************************************************************************)
\* the lookups of one kind among the lookups issued
OfKind(queries, kind) == {i \in DOMAIN queries : queries[i].kind = kind}

\* the query text of lookup qu is built from the string s
Mentions(qu, s) == \E i \in DOMAIN qu.q : qu.q[i] = s

\* the resolve of a track has run
TrackResolved == mpc = "done" /\ IsTrack(mitem)

HasCode == "isrc" \in DOMAIN mitem /\ mitem.isrc \notin {None, ""}

\* the identifier of the first candidate of the text answer, None without one
FirstTextCandidate ==
    IF Count(mcat.songs, <<mitem.name, mitem.artist>>) > 0
    THEN <<"songs", <<mitem.name, mitem.artist>>, 1>>
    ELSE NoId

\* C6: a track with an ISRC for which the destination returns at least one
\* result is resolved with exactly one code query and no text query, and
\* the result is the first candidate of the code query.
C6_CodeFirst ==
    (/\ TrackResolved
     /\ HasCode
     /\ Count(mcat.isrc, mitem.isrc) >= 1
     /\ mfault # "code")
        => /\ Len(mres.queries) = 1
           /\ mres.queries[1].kind = "code"
           /\ Mentions(mres.queries[1], mitem.isrc)
           /\ OfKind(mres.queries, "text") = {}
           /\ ~mres.raised
           /\ mres.id = <<"isrc", mitem.isrc, 1>>

\* C6 witness: a code hit on a track that the text query would match too
C6_Witness ==
    /\ TrackResolved
    /\ HasCode
    /\ mprov = "apple_api"
    /\ Count(mcat.isrc, mitem.isrc) = 2
    /\ Count(mcat.songs, <<mitem.name, mitem.artist>>) >= 1
    /\ mres.id = <<"isrc", mitem.isrc, 1>>

\* C7 (as claimed): an album with a UPC that exists in the destination
\* catalog is resolved by a code query, without a text query, and succeeds.
C7_AlbumCodeFirst ==
    (/\ mpc = "done"
     /\ ~IsTrack(mitem)
     /\ "upc" \in DOMAIN mitem /\ mitem.upc \notin {None, ""}
     /\ Count(mcat.upc, mitem.upc) >= 1
     /\ mfault = "none")
        => /\ OfKind(mres.queries, "code") # {}
           /\ OfKind(mres.queries, "text") = {}
           /\ mres.id # NoId

\* C8: a track without a code (no isrc key, None, or "") is resolved with
\* exactly one text query built from its name and artist and no code query;
\* the result is the first text candidate, or None when there is none.
C8_NoCodeTextOnly ==
    (TrackResolved /\ ~HasCode)
        => /\ Len(mres.queries) = 1
           /\ mres.queries[1].kind = "text"
           /\ Mentions(mres.queries[1], mitem.name)
           /\ Mentions(mres.queries[1], mitem.artist)
           /\ OfKind(mres.queries, "code") = {}
           /\ (mfault # "text" =>
                 ~mres.raised /\ mres.id = FirstTextCandidate)

\* C8 witness: a track whose isrc is the empty string, matched by text
C8_Witness ==
    /\ TrackResolved
    /\ Get(mitem, "isrc") = ""
    /\ mres.id = <<"songs", <<mitem.name, mitem.artist>>, 1>>

\* C9: a track whose code query returns nothing is resolved with exactly one
\* code query followed by exactly one text query, and the result is the
\* first text candidate or None; no resolve issues more than one code lookup
\* or more than one text lookup.
C9_FallbackBound ==
    TrackResolved
        => /\ Cardinality(OfKind(mres.queries, "code")) <= 1
           /\ Cardinality(OfKind(mres.queries, "text")) <= 1
           /\ (HasCode /\ Count(mcat.isrc, mitem.isrc) = 0 /\ mfault # "code")
                 => /\ Len(mres.queries) = 2
                    /\ mres.queries[1].kind = "code"
                    /\ mres.queries[2].kind = "text"
                    /\ Mentions(mres.queries[2], mitem.name)
                    /\ Mentions(mres.queries[2], mitem.artist)
                    /\ (mfault # "text" =>
                          ~mres.raised /\ mres.id = FirstTextCandidate)

\* C9 witness: the code query found nothing and the text query a candidate
C9_Witness ==
    /\ TrackResolved
    /\ HasCode
    /\ Count(mcat.isrc, mitem.isrc) = 0
    /\ Len(mres.queries) = 2
    /\ mres.id = <<"songs", <<mitem.name, mitem.artist>>, 1>>

(***************************************************************************)
(* Properties of the write operations (checked under SpecWrite).           *)
(***************************************************************************)
\* C1: conservation.  In every write operation of every client, after k
\* items have been processed added + len(failed) = k, and when the call
\* returns added + len(failed) is the number of items handed to it.
C1_Conservation ==
    /\ ReturnedAdded + Len(failed) = wi
    /\ wpc = "returned" => ReturnedAdded + Len(failed) = Len(witems)

\* C1 witness: a call of two items returned one added and one failed
C1_Witness ==
    /\ wpc = "returned"
    /\ Len(witems) = 2
    /\ ReturnedAdded = 1
    /\ Len(failed) = 1

\* C2 (as claimed): the exception of the lookup or the write of one item
\* never leaves the operation: the item is recorded as failed, the remaining
\* items are processed and the call returns.
C2_ItemFailureIsolation == ~(wpc = "raised" /\ wexc = "item")

\* a call that creates the playlist
IsCreateCall(c) ==
    c.kind \in {"write", "script"}
        /\ c.op \in {"create_playlist", "make_playlist"}

\* a lookup of a track, or a call that adds tracks to the playlist
IsTrackCall(c) ==
    \/ c.kind \in {"code", "text"}
    \/ c.kind \in {"write", "script"} /\ c.op \in {"duplicate", "add_items"}

\* C10: in create_playlist the creation call completes before any track is
\* looked up or added, and no track is looked up or added when the creation
\* call (or what it needs first) failed.
C10_CreateBeforeTracks ==
    wop = "create_playlist"
        => /\ \A i \in DOMAIN calls :
                IsTrackCall(calls[i])
                    => \E j \in 1..(i - 1) : IsCreateCall(calls[j])
           /\ wexc \in {"create", "user"}
                => \A i \in DOMAIN calls : ~IsTrackCall(calls[i])

\* C10 witness: a playlist was created, a track matched and then added
C10_Witness ==
    /\ wop = "create_playlist"
    /\ wpc = "returned"
    /\ ReturnedAdded >= 1
    /\ IsCreateCall(calls[1]) \/ IsCreateCall(calls[2])
    /\ \E i \in DOMAIN calls : IsTrackCall(calls[i])

\* the destination holds no candidate for the track: neither under its
\* code, if it has one, nor under its name and artist
Unresolved(track) ==
    /\ \/ "isrc" \notin DOMAIN track
       \/ track.isrc \in {None, ""}
       \/ Count(wcat.isrc, track.isrc) = 0
    /\ Count(wcat.songs, <<track.name, track.artist>>) = 0

\* C16: add_liked_songs of the API clients.  After any number of tracks
\* failed is the sequence of the tracks processed for which the destination
\* has no match, in input order and with repetitions, and added counts the
\* others; so the call returns (number of matched tracks, unmatched tracks).
C16_LikedSongsResult ==
    (wop = "add_liked_songs" /\ wprov \in {"spotify", "apple_api"})
        => /\ failed = SelectSeq(SubSeq(witems, 1, wi), Unresolved)
           /\ added = wi - Len(failed)
           /\ wpc = "returned" => wi = Len(witems)

\* C16 witness: two tracks matched by code, the third has no code and no
\* text match: (2, <<track_3>>)
C16_Witness ==
    /\ wop = "add_liked_songs"
    /\ wprov \in {"spotify", "apple_api"}
    /\ wpc = "returned"
    /\ Len(witems) = 3
    /\ \A k \in 1..2 : Get(witems[k], "isrc") = "I1"
    /\ Count(wcat.isrc, "I1") = 1
    /\ Cardinality({i \in DOMAIN calls : calls[i].kind = "code"}) = 2
    /\ "isrc" \notin DOMAIN witems[3]
    /\ added = 2
    /\ failed = <<witems[3]>>

\* C13 (as claimed): in every write operation progress_cb is invoked once
\* for each item processed, the k-th time with (k, n) for an input of n
\* items, so that the last tick of a returned call has done = total.
C13_TickPerItem ==
    /\ Len(ticks) = wi
    /\ \A k \in DOMAIN ticks : ticks[k] = <<k, Len(witems)>>
    /\ (wpc = "returned" /\ witems # <<>>)
          => ticks[Len(ticks)] = <<Len(witems), Len(witems)>>

(***************************************************************************)
(* Properties of the GUI run (checked under SpecGui).                      *)
(***************************************************************************)
\* C3 (as claimed): a playlist creation the destination rejects aborts the
\* playlists task only: the run does not end by that exception while the
\* selected albums task has not been read.
C3_TaskFatalIsolation ==
    ~(/\ gpc \in {"except", "failed"}
      /\ wexc = "create"
      /\ \E i \in DOMAIN tasks : tasks[i] = "albums"
      /\ \A i \in DOMAIN reads : reads[i] # "albums")

\* C4 (as claimed): every reported fraction lies in [0, 1] and no report is
\* below the one before it.
C4_ProgressMonotone ==
    \A i \in DOMAIN reports :
        /\ FLeq(FZero, reports[i])
        /\ FLeq(reports[i], FOne)
        /\ i > 1 => FLeq(reports[i - 1], reports[i])

\* the reports equal to 1.0
Ones == {i \in DOMAIN reports : reports[i] = FOne}

Creations == {i \in DOMAIN calls : IsCreateCall(calls[i])}

\* the calls sent since the latest playlist creation
SinceCreation ==
    {i \in DOMAIN calls : \A j \in Creations : j < i}

\* C11: playlist creation is never skipped.  Once create_playlist is past
\* its creation step one creation call has been issued for each playlist
\* reached so far, under that playlist's name; when the task is over there
\* are as many creations as playlists read; and a playlist none of whose
\* tracks matched (or without tracks) is created, receives no add call, and
\* its call returns (0, all tracks).
C11_CreationNeverSkipped ==
    /\ (gpc = "cli_write" /\ wop = "create_playlist"
            /\ wpc \in {"loop", "populate", "returned"})
          => /\ Cardinality(Creations) = pl_i + 1
             /\ \E i \in Creations :
                   /\ \A j \in Creations : j <= i
                   /\ calls[i].name = items[pl_i + 1].name
    /\ (gpc = "cli_if" /\ task_i = 2 /\ sel.playlists /\ ~dry_run)
          => Cardinality(Creations) = Len(items)
    /\ (gpc = "cli_write" /\ wop = "create_playlist" /\ wpc = "returned"
            /\ track_ids = <<>>)
          => /\ \A i \in SinceCreation : calls[i].kind \in {"code", "text"}
             /\ ReturnedAdded = 0
             /\ failed = witems

\* C11 witness: the second playlist, after a first one without tracks, was
\* created although none of its tracks matched
C11_Witness ==
    /\ gpc = "cli_write"
    /\ wop = "create_playlist"
    /\ wpc = "returned"
    /\ pl_i = 1
    /\ items[1].tracks = <<>>
    /\ Len(witems) = 1
    /\ track_ids = <<>>
    /\ Cardinality(Creations) = 2

\* the place of a task in the fixed order
Rank(label) ==
    CASE label = "liked songs" -> 1
      [] label = "playlists" -> 2
      [] OTHER -> 3

\* the tasks a destination call can belong to
RanksOfCall(c) ==
    IF c.kind \in {"code", "text"}
    THEN (IF c.type \in {"album", "albums"} THEN {3} ELSE {1, 2})
    ELSE IF c.op \in {"like", "love", "count_library"} THEN {1}
    ELSE IF c.op \in {"save_album", "album_check"} THEN {3}
    ELSE {2}

SelectedRanks ==
    (IF sel.liked THEN {1} ELSE {}) \cup (IF sel.playlists THEN {2} ELSE {})
        \cup (IF sel.albums THEN {3} ELSE {})

\* C14: the tasks of one run execute in the order liked songs, playlists,
\* albums.  Only selected collections are read, each at most once and in
\* that order; every destination call belongs to a selected task, and to
\* the task whose collection was read last; no collection is read while a
\* write operation is in progress.
C14_FixedTaskOrder ==
    /\ \A i \in DOMAIN reads :
          /\ Rank(reads[i]) \in SelectedRanks
          /\ \A j \in DOMAIN reads : i < j => Rank(reads[i]) < Rank(reads[j])
    /\ \A i \in DOMAIN calls :
          /\ RanksOfCall(calls[i]) \cap SelectedRanks # {}
          /\ \A j \in DOMAIN calls :
                i < j => \E a \in RanksOfCall(calls[i]) :
                            \E b \in RanksOfCall(calls[j]) : a <= b
    /\ wpc \notin {"idle", "returned", "raised"}
          => /\ gpc = "cli_write"
             /\ reads # <<>>
             /\ WriterOf(reads[Len(reads)]) = wop
    /\ gpc \in {"cli_if", "cli_read"} => wpc = "idle"

\* C14 witness: liked songs and albums were selected, playlists were not;
\* the run read and wrote the liked songs, then the albums, and ended
C14_Witness ==
    /\ gpc = "cli_done"
    /\ reads = <<"liked songs", "albums">>
    /\ \E i \in DOMAIN calls : calls[i].kind = "write" /\ calls[i].op = "like"
    /\ \E i \in DOMAIN calls :
          calls[i].kind = "write" /\ calls[i].op = "save_album"

(***************************************************************************)
(* Properties of the batched populate (checked under SpecBatch).           *)
(***************************************************************************)
IsAddCall(c) == c.kind = "write" /\ c.op = "add_items"

\* the playlist_add_items calls sent so far, in order
AddCalls == SelectSeq(calls, IsAddCall)

\* C12: batched populate on Spotify.  Every add call carries at most 100
\* identifiers and all but the last of a returned call exactly 100; the
\* k-th call carries the identifiers from position 100 (k - 1) + 1 of the
\* matched ones; a returned call has issued ceil(m / 100) add calls for m
\* matched identifiers, which together carry all m; and the matched
\* identifiers are those of the matching tracks in source order.
C12_BatchedPopulate ==
    LET m == Len(track_ids)
    IN  /\ \A k \in DOMAIN AddCalls :
              /\ Len(AddCalls[k].ids) <= 100
              /\ Len(AddCalls[k].ids) >= 1
              /\ \A j \in DOMAIN AddCalls[k].ids :
                    /\ 100 * (k - 1) + j <= m
                    /\ AddCalls[k].ids[j] = track_ids[100 * (k - 1) + j]
        /\ wpc = "returned"
              => /\ Len(AddCalls) = (m + 99) \div 100
                 /\ \A k \in DOMAIN AddCalls :
                       k < Len(AddCalls) => Len(AddCalls[k].ids) = 100
                 /\ m > 0 => Len(AddCalls[Len(AddCalls)].ids)
                                = m - 100 * (Len(AddCalls) - 1)
                 /\ m = Len(witems) - Len(witems) \div BatchMissEvery
        /\ \A i \in DOMAIN track_ids :
              /\ track_ids[i][2][1] % BatchMissEvery # 0
              /\ i > 1 => track_ids[i - 1][2][1] < track_ids[i][2][1]

\* C12 witness: 150 matched identifiers went out as 100 + 50
C12_Witness ==
    /\ wpc = "returned"
    /\ Len(track_ids) = 150
    /\ Len(AddCalls) = 2
    /\ Len(AddCalls[1].ids) = 100
    /\ Len(AddCalls[2].ids) = 50

(***************************************************************************)
(* Properties of the paged collectors (checked under SpecPage).            *)
(***************************************************************************)
\* the server serves min(100, remaining) items per page
ServesFullPages == pcap >= 100

\* C15: pagination boundary rule.  The k-th request asks for 100 items from
\* offset 100 (k - 1); against a server that serves min(100, remaining)
\* items per page the collector goes on exactly while every page so far
\* held 100 items, and returns all N items in source order after
\* floor(N / 100) + 1 requests, so that a library of a multiple of 100
\* items costs one extra request that comes back empty.
C15_PaginationBoundary ==
    /\ \A k \in DOMAIN preqs :
          preqs[k].limit = 100 /\ preqs[k].offset = 100 * (k - 1)
    /\ ServesFullPages
          => /\ ppc = "get" => Len(ptracks) = 100 * Len(preqs)
             /\ ppc = "returned"
                   => /\ ptracks = psrc
                      /\ Len(preqs) = Len(psrc) \div 100 + 1
                      /\ preqs[Len(preqs)].offset
                            = 100 * (Len(psrc) \div 100)
             /\ \A i \in DOMAIN ptracks : ptracks[i] = psrc[i]

\* C15 witness: 200 items came in two full pages and a third, empty one
C15_Witness ==
    /\ ServesFullPages
    /\ ppc = "returned"
    /\ Len(psrc) = 200
    /\ Len(ptracks) = 200
    /\ Len(preqs) = 3
    /\ preqs[3].offset = 200

(***************************************************************************)
(* Properties of the playlists task (checked under SpecCli).               *)
(***************************************************************************)
RECURSIVE UnmatchedUpTo(_)
\* the unmatched tracks of the first k playlists read, playlist by playlist
UnmatchedUpTo(k) ==
    IF k = 0 THEN <<>>
    ELSE UnmatchedUpTo(k - 1) \o SelectSeq(items[k].tracks, Unresolved)

RECURSIVE TracksUpTo(_)
\* the number of tracks of the first k playlists read
TracksUpTo(k) ==
    IF k = 0 THEN 0 ELSE TracksUpTo(k - 1) + Len(items[k].tracks)

RECURSIVE SumIds(_)
\* the number of identifiers the add calls of a sequence carry
SumIds(cs) ==
    IF cs = <<>> THEN 0 ELSE Len(Head(cs).ids) + SumIds(Tail(cs))

\* the worker is in the playlists task, between two playlists or past the
\* last one
BetweenPlaylists ==
    /\ reads # <<>>
    /\ reads[Len(reads)] = "playlists"
    /\ ~dry_run
    /\ gpc \in {"cli_call", "cli_if"}

LastReport == reports[Len(reports)]

\* the writer of the running task has ticked: the latest report is the one
\* of its latest tick
Ticked(closure) == gpc = "write" /\ cb = closure /\ wi > 0

\* i/T + (done/total)/T, each operation rounded as Python rounds it
ItemShare(i, T, done, total) ==
    FAdd(FDiv(i, T), FDivInt(FDiv(done, total), T))

\* i/T + (p/P + done/total/P)/T, each operation rounded as Python rounds it
PlaylistShare(i, T, p, P, done, total) ==
    FAdd(FDiv(i, T),
         FDivInt(FAdd(FDiv(p, P), FDivInt(FDiv(done, total), P)), T))

\* i/T + p/P/T + done/total/P/T, evaluated from left to right
PlaylistShareTermwise(i, T, p, P, done, total) ==
    FAdd(FAdd(FDiv(i, T), FDivInt(FDiv(p, P), T)),
         FDivInt(FDivInt(FDiv(done, total), P), T))

\* 2^-52
FEps == <<0, 0, 2^20>>

\* x and y differ by no more than 2^-52
Near(x, y) == FLeq(x, FAdd(y, FEps)) /\ FLeq(y, FAdd(x, FEps))

\* T is the number of selected tasks, i the index among the selected ones
SelectedOnly ==
    gpc \notin {"idle", "begin"}
        => /\ Len(tasks) = Cardinality(SelectedRanks)
           /\ \A k \in DOMAIN tasks : Rank(tasks[k]) \in SelectedRanks
           /\ \A k \in DOMAIN tasks :
                 k = Cardinality({r \in SelectedRanks : r <= Rank(tasks[k])})

\* what the formula says of the tasks without playlists and of the end of
\* a task
ItemAndTaskReports ==
    /\ Ticked("progress")
          => LastReport = ItemShare(task_i, Len(tasks), wi, Len(witems))
    /\ (gpc \in {"read", "finish"} /\ task_i > 0)
          => LastReport = FDiv(task_i, Len(tasks))

AllItemsProcessed ==
    \/ gpc \in {"finish", "done"}
    \/ /\ task_i = Len(tasks) - 1
       /\ gpc = "task_end"
    \/ /\ task_i = Len(tasks) - 1
       /\ gpc \in {"write", "except", "failed"}
       /\ wi = Len(witems)
       /\ tasks[task_i + 1] = "playlists" => pl_i = Len(items) - 1

\* C19 (as claimed): 1.0 is reported only on full completion.  No report
\* is 1.0 while a selected task has an unprocessed item, and a run that
\* ends in Failed has reported no 1.0.
C19_OneOnlyOnCompletion ==
    /\ Ones # {} => AllItemsProcessed
    /\ gpc \in {"except", "failed"} => Ones = {}

\* the description a playlist has: the empty one when none is given
DescriptionOf(r) ==
    IF "description" \in DOMAIN r /\ r.description # None
    THEN r.description ELSE ""

\* C20 (as claimed): each destination playlist is created with the name
\* and the description of the source playlist it is created for.
C20_SameNameAndDescription ==
    (gpc = "write" /\ wop = "create_playlist"
         /\ wpc \in {"loop", "populate", "returned"})
        => \E i \in Creations :
              /\ \A j \in Creations : j <= i
              /\ calls[i].name = items[pl_i + 1].name
              /\ DescriptionOf(calls[i]) = DescriptionOf(items[pl_i + 1])

(***************************************************************************)
(* Properties of the dry run (checked under SpecCli).                      *)
(***************************************************************************)
\* C22: a dry run makes no changes.  With dry_run set, whatever the
\* direction, the selection and the source collections, no writer is ever
\* entered and no call reaches the destination; the run only reads.
C22_DryRunNoChanges ==
    dry_run
       => /\ calls = <<>>
          /\ wpc = "idle"
          /\ gpc \notin {"cli_call", "cli_write"}
          /\ wi = 0 /\ added = 0 /\ ticks = <<>>

\* C22 witness: a dry run of all three tasks over non-empty collections
\* came to its end, each task announcing what it would transfer
C22_Witness ==
    /\ dry_run
    /\ gpc = "cli_done"
    /\ reads = CliOrder
    /\ glog = <<"would transfer", "would transfer", "would transfer",
                "Done.">>

(***************************************************************************)
(* The collectors get_liked_songs and get_playlists of both API clients,   *)
(* with the _get_playlist_tracks calls of get_playlists.  The Apple Music  *)
(* loops ask for `limit` items from `offset` on and go on until a page is  *)
(* shorter than the limit; the Spotify loops follow the `next` cursor of   *)
(* each page until it is empty.  A library playlist is known by its        *)
(* number, whether the user may edit it (Apple Music) or owns it           *)
(* (Spotify), and its entries; a Spotify entry whose track is missing or   *)
(* has no id is the entry 0.                                               *)
(***************************************************************************)
MaxLists == 101

\* every how many entries a Spotify playlist with gaps holds an entry
\* without a track id
GapEvery == 7

\* limit=50 of current_user_saved_tracks and current_user_playlists
SpotifyListLimit == 50

\* limit=100 of playlist_tracks
SpotifyTracksLimit == 100

\* the limit a loop asks for
ListLimit(prov) == IF prov = "apple_api" THEN PageLimit ELSE SpotifyListLimit

TracksLimit(prov) ==
    IF prov = "apple_api" THEN PageLimit ELSE SpotifyTracksLimit

\* the entries of a library playlist, in order
Entries(pl) ==
    [j \in 1..pl.n |-> IF pl.gaps /\ j % GapEvery = 0 THEN 0 ELSE j]

\* the library playlists: every fourth belongs to somebody else, the
\* second is a long one
Library(n, big, gaps) ==
    [k \in 1..n |-> [id |-> k, mine |-> k % 4 # 0,
                     n |-> IF k = 2 THEN big ELSE k % 3, gaps |-> gaps]]

\* the library sizes around the page boundaries
ListSizes == {n \in 0..MaxLists : n % SpotifyListLimit \in {0, 1, 49}}

\* the answer to a request for `limit` items from `off` on: the items and
\* whether the answer names a next page
Answer(src, cap, off, limit) ==
    LET its == Page(src, cap, off, limit)
    IN  [items |-> its, next |-> off + Len(its) < Len(src)]

\* faulty variant: the Spotify loops go on until a page comes back empty
ListEndsWhenEmpty(prov, ans, limit) ==
    IF prov = "apple_api" THEN LastPage(Len(ans.items), limit)
    ELSE ans.items = <<>>

\* the end of a loop over the pages of a collection:
\* `if len(items) < limit: break`, `... if results["next"] else None`
ListEnds(prov, ans, limit) ==
    IF prov = "apple_api" THEN LastPage(Len(ans.items), limit)
    ELSE ~ans.next

\* faulty variant: _get_playlist_tracks returns after its first page
TracksEndAtOnce(prov, ans, limit) == TRUE

\* the end of the loop of _get_playlist_tracks
TracksEnd(prov, ans, limit) ==
    IF prov = "apple_api" THEN LastPage(Len(ans.items), limit)
    ELSE ~ans.next

\* the entries of a page _get_playlist_tracks keeps: the Spotify client
\* passes over an entry without a track or without a track id
Kept(prov, its) ==
    IF prov = "apple_api" THEN its ELSE SelectSeq(its, LAMBDA e : e # 0)

\* the offset of the page after one of `n` items that began at `off`
NextOffset(prov, off, n, limit) ==
    IF prov = "apple_api" THEN off + limit ELSE off + n

\* where get_playlists goes once `done` items of the page are worked off
AfterItem(done) == IF done < Len(cpage.items) THEN "item" ELSE "next"

InitCollect ==
    /\ NoMatch
    /\ NoWrite
    /\ NoGui
    /\ NoPage
    /\ NoMusic
    /\ NoApp
    /\ cprov \in {"apple_api", "spotify"}
    /\ cfun \in {"get_liked_songs", "get_playlists"}
    /\ ccap \in ServerCaps
    /\ IF cfun = "get_liked_songs"
       THEN clib \in {[k \in 1..n |-> k] : n \in 0..MaxSource}
       ELSE clib \in {Library(n, big, gaps) :
                         n \in ListSizes, big \in {0, PageLimit, MaxSource},
                         gaps \in {FALSE, cprov = "spotify"}}
    /\ cpc = "get"
    /\ coffset = 0
    /\ cpage = [items |-> <<>>, next |-> FALSE]
    /\ ck = 0
    /\ cout = <<>>
    /\ tid = 0
    /\ toffset = 0
    /\ ttracks = <<>>
    /\ clog = <<>>

\* one request of the loop over the collection, which may raise; the
\* liked songs of the page are appended at once
CollectGet ==
    /\ cpc = "get"
    /\ clog' = Append(clog, [kind |-> "list", limit |-> ListLimit(cprov),
                             offset |-> coffset])
    /\ \/ /\ cpc' = "raised"
          /\ UNCHANGED <<cpage, ck, cout>>
       \/ LET ans == Answer(clib, ccap, coffset, ListLimit(cprov))
          IN  /\ cpage' = ans
              /\ ck' = 0
              /\ IF cfun = "get_liked_songs"
                 THEN cout' = cout \o ans.items /\ cpc' = "next"
                 ELSE /\ cout' = cout
                      /\ cpc' = IF ans.items = <<>> THEN "next" ELSE "item"
    /\ UNCHANGED <<cprov, cfun, clib, ccap, coffset, tid, toffset, ttracks>>
    /\ UNCHANGED <<matchVars, writeVars, guiVars, reports, pageVars,
                   musicVars, appVars>>

\* one item of a page of get_playlists: a playlist of somebody else is
\* passed over, for the user's own _get_playlist_tracks is called; the
\* Spotify client fetches its user id on the first comparison, which may
\* raise
CollectItem ==
    /\ cpc = "item"
    /\ \/ /\ cprov = "spotify" /\ coffset = 0 /\ ck = 0
          /\ cpc' = "raised"
          /\ UNCHANGED <<ck, tid, toffset, ttracks>>
       \/ LET item == cpage.items[ck + 1]
          IN  IF ~item.mine
              THEN /\ ck' = ck + 1
                   /\ cpc' = AfterItem(ck + 1)
                   /\ UNCHANGED <<tid, toffset, ttracks>>
              ELSE /\ tid' = item.id
                   /\ toffset' = 0
                   /\ ttracks' = <<>>
                   /\ cpc' = "tracks"
                   /\ ck' = ck
    /\ UNCHANGED <<cprov, cfun, clib, ccap, coffset, cpage, cout, clog>>
    /\ UNCHANGED <<matchVars, writeVars, guiVars, reports, pageVars,
                   musicVars, appVars>>

\* one request of the loop of _get_playlist_tracks, which may raise; after
\* the last one the call returns and get_playlists appends the record
TracksGet ==
    /\ cpc = "tracks"
    /\ LET limit == TracksLimit(cprov)
           req   == [kind |-> "tracks", id |-> tid, limit |-> limit,
                     offset |-> toffset]
           ans   == Answer(Entries(clib[tid]), ccap, toffset, limit)
           all   == ttracks \o Kept(cprov, ans.items)
       IN  \/ /\ clog' = Append(clog, req)
              /\ cpc' = "raised"
              /\ UNCHANGED <<ck, cout, toffset, ttracks>>
           \/ /\ ttracks' = all
              /\ IF TracksEnd(cprov, ans, limit)
                 THEN /\ cout' = Append(cout, [id |-> tid, tracks |-> all])
                      /\ clog' = clog \o <<req, [kind |-> "append",
                                                 id |-> tid]>>
                      /\ ck' = ck + 1
                      /\ cpc' = AfterItem(ck + 1)
                      /\ toffset' = toffset
                 ELSE /\ clog' = Append(clog, req)
                      /\ toffset' = NextOffset(cprov, toffset,
                                               Len(ans.items), limit)
                      /\ UNCHANGED <<ck, cout, cpc>>
    /\ UNCHANGED <<cprov, cfun, clib, ccap, coffset, cpage, tid>>
    /\ UNCHANGED <<matchVars, writeVars, guiVars, reports, pageVars,
                   musicVars, appVars>>

\* the end of a page: the loop breaks and the collector returns, or it
\* goes on with the next page
CollectNext ==
    /\ cpc = "next"
    /\ IF ListEnds(cprov, cpage, ListLimit(cprov))
       THEN cpc' = "returned" /\ coffset' = coffset
       ELSE /\ cpc' = "get"
            /\ coffset' = NextOffset(cprov, coffset, Len(cpage.items),
                                     ListLimit(cprov))
    /\ UNCHANGED <<cprov, cfun, clib, ccap, cpage, ck, cout, tid, toffset,
                   ttracks, clog>>
    /\ UNCHANGED <<matchVars, writeVars, guiVars, reports, pageVars,
                   musicVars, appVars>>

NextCollect == CollectGet \/ CollectItem \/ TracksGet \/ CollectNext

SpecCollect == InitCollect /\ [][NextCollect]_vars

\* every request is answered or raises, and the client goes on
SpecCollectLive == SpecCollect /\ WF_vars(NextCollect)

(***************************************************************************)
(* Properties of get_playlists (checked under SpecCollect).                *)
(***************************************************************************)
\* the server puts as many items in a page as the track loop relies on:
\* the Apple Music loop takes a page shorter than its limit for the last
\* one, the Spotify loop follows the cursor whatever the page size
TracksServed == cprov = "spotify" \/ ccap >= PageLimit

\* the ids of the library playlists whose records were appended, in order
AppendedIds ==
    LET IsAppend(e) == e.kind = "append"
        ev == SelectSeq(clog, IsAppend)
    IN  [i \in DOMAIN ev |-> ev[i].id]

\* C21: a playlist record is appended only after its full track list has
\* been resolved.  In the sequence of requests and appends of
\* get_playlists, the track pages of one playlist are requested in a row,
\* from offset 0 on with growing offsets, and what follows the last of
\* them is the append of that playlist's record; the next playlist's first
\* track page is requested only after that append.  Records are appended
\* in library order, one per playlist of the user, and each carries every
\* entry of every page of its playlist (for Spotify: every entry that has a
\* track with an id), up to the end of the playlist.
C21_YieldAfterTracks ==
    cfun = "get_playlists"
       => /\ \A t \in DOMAIN clog :
                clog[t].kind = "tracks"
                   => /\ clog[t].offset = 0
                         \/ (t > 1 /\ clog[t - 1].kind = "tracks")
                      /\ t < Len(clog)
                            => /\ clog[t + 1].kind \in {"tracks", "append"}
                               /\ clog[t + 1].id = clog[t].id
                               /\ clog[t + 1].kind = "tracks"
                                     => clog[t + 1].offset > clog[t].offset
                      /\ t = Len(clog)
                            => /\ cpc \in {"tracks", "raised"}
                               /\ tid = clog[t].id
          /\ \A a \in DOMAIN clog :
                clog[a].kind = "append"
                   => /\ a > 1
                      /\ clog[a - 1].kind = "tracks"
                      /\ clog[a - 1].id = clog[a].id
                      /\ TracksServed
                            => clog[a - 1].offset + clog[a - 1].limit
                                  >= clib[clog[a].id].n
          /\ AppendedIds = [i \in DOMAIN cout |-> cout[i].id]
          /\ \A i \in DOMAIN cout :
                /\ clib[cout[i].id].mine
                /\ i > 1 => cout[i - 1].id < cout[i].id
                /\ TracksServed
                      => cout[i].tracks
                            = Kept(cprov, Entries(clib[cout[i].id]))
          /\ cpc = "returned" /\ TracksServed
                => \A k \in DOMAIN clib :
                      clib[k].mine => \E i \in DOMAIN cout : cout[i].id = k

\* C21 witness: an Apple Music library of 101 playlists, the second of 100
\* tracks, was collected in two playlist pages; the record of the second
\* playlist carries its 100 tracks, and was appended after the full page
\* and the empty page that ends the loop, before the third playlist's
\* tracks were asked for
C21_Witness ==
    /\ cfun = "get_playlists"
    /\ cprov = "apple_api"
    /\ cpc = "returned"
    /\ Len(clib) = 101
    /\ clib[2].n = 100
    /\ cout[2].id = 2
    /\ Len(cout[2].tracks) = 100
    /\ \E t \in DOMAIN clog :
          /\ clog[t] = [kind |-> "tracks", id |-> 2, limit |-> 100,
                        offset |-> 0]
          /\ clog[t + 1].kind = "tracks" /\ clog[t + 1].offset = 100
          /\ clog[t + 2] = [kind |-> "append", id |-> 2]
          /\ clog[t + 3].kind = "tracks" /\ clog[t + 3].id = 3

(***************************************************************************)
(* Termination of the pagination loops (checked under SpecCollectLive).    *)
(***************************************************************************)
\* the number of requests of one kind in the log (for "tracks": those for
\* the playlist id)
Requests(kind, id) ==
    LET Is(e) == e.kind = kind /\ (kind = "tracks" => e.id = id)
    IN  Len(SelectSeq(clog, Is))

\* the most page requests a collection of n items may cost
PageBudget(n, limit) == n \div limit + 1

\* the loops spend no more than their budget of page requests, stop where
\* the claim says, and a collector that returns has drained the collection
WithinPageBudget ==
    /\ ccap >= ListLimit(cprov)
          => /\ Requests("list", 0)
                   <= PageBudget(Len(clib), ListLimit(cprov))
             /\ cpc = "returned"
                   => /\ Requests("list", 0)
                            = IF cprov = "apple_api"
                              THEN Len(clib) \div PageLimit + 1
                              ELSE Max(1, (Len(clib) + SpotifyListLimit - 1)
                                             \div SpotifyListLimit)
                      /\ cfun = "get_liked_songs" => cout = clib
                      /\ cfun = "get_playlists"
                            => Len(cout)
                                  = Cardinality({k \in DOMAIN clib :
                                                    clib[k].mine})
    /\ tid > 0 /\ ccap >= TracksLimit(cprov)
          => Requests("tracks", tid)
                <= PageBudget(clib[tid].n, TracksLimit(cprov))
    /\ cpc = "returned"
          => IF cprov = "apple_api"
             THEN Len(cpage.items) < PageLimit
             ELSE ~cpage.next
    /\ cpc = "get" /\ clog # <<>>
          => IF cprov = "apple_api"
             THEN Len(cpage.items) >= PageLimit
             ELSE cpage.next

\* the collector has returned, or a request raised
CollectorEnded == cpc \in {"returned", "raised"}

\* C28: every pagination loop terminates for every finite collection.  A
\* collector always comes to its end: it returns, unless a request raised.
\* The Apple Music loops go on after a page of `limit` items and stop after
\* the first shorter one, the Spotify loops go on while the page names a
\* next one; against a server that serves min(limit, remaining) items per
\* page a collection of N items costs at most floor(N / limit) + 1
\* requests, and the collector that returns has drained it.
C28_PaginationTerminates == []WithinPageBudget /\ <>CollectorEnded

\* C28 witness: the Spotify client collected 250 liked songs in five pages
\* of 50 and returned them all
C28_Witness ==
    /\ cprov = "spotify"
    /\ cfun = "get_liked_songs"
    /\ cpc = "returned"
    /\ Len(clib) = 250
    /\ cout = clib
    /\ Requests("list", 0) = 5
    /\ clog[5].offset = 200

(***************************************************************************)
(* Properties of the AppleScript create_playlist (checked under            *)
(* SpecWrite).                                                             *)
(***************************************************************************)
\* C27: every track duplicated during one call of the AppleScript
\* create_playlist is placed in the playlist made by that same call, also
\* when Music already holds a user playlist of the same name; a playlist
\* that was there before the call is left as it was.
C27_TracksInOwnPlaylist ==
    \A i \in DOMAIN upl :
        /\ \A k \in DOMAIN upl[i].tracks : upl[i].tracks[k].call = upl[i].made
        /\ upl[i].made = 0 => upl[i].tracks = <<>>

(***************************************************************************)
(* The window and its threads: the Tk main loop runs the handlers of the   *)
(* Sync button, the three task buttons and the direction arrow and the     *)
(* callbacks queued with after(0, ...); each thread started by             *)
(* _start_sync runs _run_sync, one statement at a time.  A reader or a     *)
(* writer call is one step that returns or raises (what it does to the     *)
(* destination is the subject of SpecGui); of the queued callbacks only    *)
(* the one that re-enables the Sync button is kept.                        *)
(***************************************************************************)
MaxRuns == 2

\* faulty variant: a disabled button still runs its command
ClickableAlways(state) == TRUE

\* tk.Button(command=self._start_sync): a click runs the command unless the
\* button's state is "disabled"
Clickable(state) == state = "normal"

\* the three checks of _start_sync, in order: what stops the click
Refusal(running, spotify, s) ==
    IF running THEN "running"
    ELSE IF spotify = None THEN "Not connected"
    ELSE IF ~(s.liked \/ s.playlists \/ s.albums) THEN "Nothing selected"
    ELSE "none"

\* a thread that has not begun _run_sync; cdir and csel note the direction
\* and the selection of the click until the thread enters its loop
NewThread(dir, s) ==
    [pc |-> "direction", dir |-> "", tasks |-> <<>>, task_i |-> 0,
     done |-> FALSE, failed |-> FALSE, cdir |-> dir, csel |-> s]

\* a thread for which the click's direction and selection are noted no
\* longer
Forget(t) ==
    [t EXCEPT !.cdir = "",
              !.csel = [liked |-> FALSE, playlists |-> FALSE,
                        albums |-> FALSE]]

\* a thread whose _run_sync has returned
Gone(t) ==
    Forget([pc |-> "gone", dir |-> "", tasks |-> <<>>, task_i |-> 0,
            done |-> t.done, failed |-> t.failed, cdir |-> "",
            csel |-> t.csel])

\* faulty variant: _running is reset at the end of the try block instead
\* of in a finally, so that the except branch passes it by
NextPcNoFinally(pc, ok, more) ==
    CASE pc = "direction" -> "liked"
      [] pc = "liked" -> "playlists"
      [] pc = "playlists" -> "albums"
      [] pc = "albums" -> "loop"
      [] pc = "loop" -> IF more THEN "read" ELSE "finish"
      [] pc = "read" -> IF ok THEN "write" ELSE "except"
      [] pc = "write" -> IF ok THEN "task_end" ELSE "except"
      [] pc = "task_end" -> "loop"
      [] pc = "finish" -> "finally"
      [] pc = "except" -> "gone"
      [] pc = "finally" -> "after"
      [] OTHER -> "gone"

\* the control flow of _run_sync: `ok` tells whether the call of the
\* statement returned, `more` whether the loop has a task left
NextPc(pc, ok, more) ==
    CASE pc = "direction" -> "liked"
      [] pc = "liked" -> "playlists"
      [] pc = "playlists" -> "albums"
      [] pc = "albums" -> "loop"
      [] pc = "loop" -> IF more THEN "read" ELSE "finish"
      [] pc = "read" -> IF ok THEN "write" ELSE "except"
      [] pc = "write" -> IF ok THEN "task_end" ELSE "except"
      [] pc = "task_end" -> "loop"
      [] pc = "finish" -> "finally"
      [] pc = "except" -> "finally"
      [] pc = "finally" -> "after"
      [] OTHER -> "gone"

\* the label and the BooleanVar of the three ifs that build tasks
TaskOf(pc) ==
    CASE pc = "liked" -> "liked songs"
      [] pc = "playlists" -> "playlists"
      [] OTHER -> "albums"

\* a thread after one step: its position moves on, the rest as given
Moved(t, ok, more) ==
    LET to == NextPc(t.pc, ok, more)
    IN  IF to = "gone" THEN Gone(t) ELSE [t EXCEPT !.pc = to]

InitApp ==
    /\ NoMatch
    /\ NoWrite
    /\ NoPage
    /\ NoMusic
    /\ NoCollect
    /\ NoGui
    /\ _sync_btn = "normal"
    /\ after_q = <<>>
    /\ workers = <<>>
    /\ auth = "pending"
    /\ dialog = "none"

\* what the window's handlers and threads leave alone
AppFrame ==
    /\ UNCHANGED <<gpc, dst, tasks, task_i, items, pl_i, all_failed, cb,
                   reads, status, glog, dry_run, reports>>
    /\ UNCHANGED <<matchVars, writeVars, pageVars, musicVars, collectVars>>

\* _connect_spotify: the client is stored as soon as it is constructed,
\* then the current_user check runs; an exception of either is caught
_connect_spotify ==
    \E outcome \in {"connected", "failed_client", "failed_user"} :
        /\ auth' = outcome
        /\ _spotify' = IF outcome = "failed_client" THEN _spotify
                       ELSE "client"

\* _check_spotify_auth, at the end of __init__: with a stored configuration
\* or one entered in the setup dialog the client is connected; a dismissed
\* dialog leaves the window without one
_check_spotify_auth ==
    /\ auth = "pending"
    /\ \/ _connect_spotify
       \/ auth' = "none" /\ _spotify' = _spotify
    /\ UNCHANGED <<direction, sel, _running, _sync_btn, after_q, workers,
                   dialog>>
    /\ AppFrame

\* _toggle: a click on one of the three task buttons
_toggle ==
    /\ auth # "pending"
    /\ \E v \in {"liked", "playlists", "albums"} :
          sel' = [sel EXCEPT ![v] = ~@]
    /\ UNCHANGED <<direction, _spotify, _running, appVars>>
    /\ AppFrame

\* _flip_direction: a click on the arrow
_flip_direction ==
    /\ auth # "pending"
    /\ direction' = IF direction = "spotify-to-apple"
                    THEN "apple-to-spotify" ELSE "spotify-to-apple"
    /\ UNCHANGED <<sel, _spotify, _running, appVars>>
    /\ AppFrame

\* a click on Sync that runs _start_sync: one of the checks shows its
\* error box, which the user closes, or returns; or the run is flagged,
\* the button disabled and the thread started
ClickSync ==
    /\ auth # "pending"
    /\ Clickable(_sync_btn)
    /\ Len(workers) < MaxRuns
    /\ LET why == Refusal(_running, _spotify, sel)
       IN  IF why = "none"
           THEN /\ _running' = TRUE
                /\ _sync_btn' = "disabled"
                /\ workers' = Append(workers, NewThread(direction, sel))
                /\ dialog' = "none"
           ELSE /\ dialog' = IF why = "running" THEN "none" ELSE why
                /\ UNCHANGED <<_running, _sync_btn, workers>>
    /\ UNCHANGED <<direction, sel, _spotify, after_q, auth>>
    /\ AppFrame

\* the main loop runs the oldest queued callback
MainLoop ==
    /\ after_q # <<>>
    /\ _sync_btn' = Head(after_q)
    /\ after_q' = Tail(after_q)
    /\ UNCHANGED <<direction, sel, _spotify, _running, workers, auth,
                   dialog>>
    /\ AppFrame

\* direction = self._direction.get(), and the readers and writers of that
\* direction
ThreadDirection(w) ==
    /\ workers[w].pc = "direction"
    /\ workers' = [workers EXCEPT
                      ![w] = [Moved(@, TRUE, TRUE) EXCEPT !.dir = direction]]
    /\ UNCHANGED <<direction, sel, _spotify, _running, _sync_btn, after_q,
                   auth, dialog>>
    /\ AppFrame

\* one of the three `if self._x.get(): tasks.append(...)`
ThreadTask(w) ==
    /\ workers[w].pc \in {"liked", "playlists", "albums"}
    /\ LET t   == workers[w]
           var == CASE t.pc = "liked" -> sel.liked
                    [] t.pc = "playlists" -> sel.playlists
                    [] OTHER -> sel.albums
       IN  workers' =
              [workers EXCEPT
                  ![w] = [Moved(t, TRUE, TRUE) EXCEPT
                             !.tasks = IF var THEN Append(@, TaskOf(t.pc))
                                       ELSE @]]
    /\ UNCHANGED <<direction, sel, _spotify, _running, _sync_btn, after_q,
                   auth, dialog>>
    /\ AppFrame

\* the head of the loop over tasks, and the end of one task
ThreadLoop(w) ==
    /\ workers[w].pc \in {"loop", "task_end"}
    /\ LET t == workers[w]
       IN  workers' =
              [workers EXCEPT
                  ![w] = IF t.pc = "loop"
                         THEN Forget(Moved(t, TRUE, t.task_i < Len(t.tasks)))
                         ELSE [Moved(t, TRUE, TRUE) EXCEPT
                                  !.task_i = @ + 1]]
    /\ UNCHANGED <<direction, sel, _spotify, _running, _sync_btn, after_q,
                   auth, dialog>>
    /\ AppFrame

\* items = reader(), and the writer call or calls of the task: each
\* returns or raises
ThreadCall(w) ==
    /\ workers[w].pc \in {"read", "write"}
    /\ \E ok \in BOOLEAN :
          workers' = [workers EXCEPT ![w] = Moved(@, ok, TRUE)]
    /\ UNCHANGED <<direction, sel, _spotify, _running, _sync_btn, after_q,
                   auth, dialog>>
    /\ AppFrame

\* the end of the try block ("Done.", "Transfer complete") and the except
\* branch ("Error: ...", "Transfer failed")
ThreadOutcome(w) ==
    /\ workers[w].pc \in {"finish", "except"}
    /\ LET t == workers[w]
       IN  workers' =
              [workers EXCEPT
                  ![w] = Moved(IF t.pc = "finish"
                               THEN [t EXCEPT !.done = TRUE]
                               ELSE [t EXCEPT !.failed = TRUE],
                               TRUE, TRUE)]
    /\ UNCHANGED <<direction, sel, _spotify, _running, _sync_btn, after_q,
                   auth, dialog>>
    /\ AppFrame

\* finally: self._running = False
ThreadFinally(w) ==
    /\ workers[w].pc = "finally"
    /\ _running' = FALSE
    /\ workers' = [workers EXCEPT ![w] = Moved(@, TRUE, TRUE)]
    /\ UNCHANGED <<direction, sel, _spotify, _sync_btn, after_q, auth,
                   dialog>>
    /\ AppFrame

\* finally: self.after(0, ...configure(state="normal")), the last
\* statement of _run_sync
ThreadAfter(w) ==
    /\ workers[w].pc = "after"
    /\ after_q' = Append(after_q, "normal")
    /\ workers' = [workers EXCEPT ![w] = Moved(@, TRUE, TRUE)]
    /\ UNCHANGED <<direction, sel, _spotify, _running, _sync_btn, auth,
                   dialog>>
    /\ AppFrame

\* one statement of one thread
ThreadStep ==
    \E w \in DOMAIN workers :
        \/ ThreadDirection(w)
        \/ ThreadTask(w)
        \/ ThreadLoop(w)
        \/ ThreadCall(w)
        \/ ThreadOutcome(w)
        \/ ThreadFinally(w)
        \/ ThreadAfter(w)

NextApp ==
    \/ _check_spotify_auth
    \/ _toggle
    \/ _flip_direction
    \/ ClickSync
    \/ MainLoop
    \/ ThreadStep

SpecApp == InitApp /\ [][NextApp]_vars

\* a started thread keeps running, and the main loop keeps running the
\* callbacks queued for it; nobody has to click
SpecAppLive == SpecApp /\ WF_vars(ThreadStep) /\ WF_vars(MainLoop)

(***************************************************************************)
(* Properties of the window and its threads (checked under SpecApp).       *)
(***************************************************************************)
\* the threads that are inside _run_sync
Live == {w \in DOMAIN workers : workers[w].pc # "gone"}

OneOutcome ==
    \A w \in DOMAIN workers :
        /\ ~(workers[w].done /\ workers[w].failed)
        /\ workers[w].pc \in {"finally", "after", "gone"}
              => workers[w].done \/ workers[w].failed
        /\ workers[w].pc \notin {"finally", "after", "gone"}
              => ~workers[w].done /\ ~workers[w].failed

\* the r-th run has been started and is not over
InProgress(r) == Len(workers) >= r /\ workers[r].pc # "gone"

\* the r-th run is over and the window is ready for the next one
ReadyAfter(r) ==
    /\ Len(workers) = r
    /\ workers[r].pc = "gone"
    /\ ~_running
    /\ _sync_btn = "normal"

\* C24: the life of a run.  Provided every reader and writer call returns
\* or raises, every started run comes to its end with exactly one outcome:
\* Done (the status "Done." and the log line "Transfer complete") or
\* Failed (the error logged), never both; after it, _running is False
\* again and the Sync button enabled again, before any other run has
\* started.
C24_RunLifecycle ==
    /\ []OneOutcome
    /\ \A r \in 1..MaxRuns : InProgress(r) ~> ReadyAfter(r)

\* C24 witness: a run failed, the button was re-enabled, a second run was
\* started and ended Done, and the window is ready again
C24_Witness ==
    /\ Len(workers) = 2
    /\ workers[1].failed /\ ~workers[1].done
    /\ workers[2].done /\ ~workers[2].failed
    /\ ReadyAfter(2)

(***************************************************************************)
(* What a run is started with (checked under SpecApp).                     *)
(***************************************************************************)
\* C25: a run is started only with an authenticated Spotify client.  After
\* _connect_spotify has failed, in the construction of the client or in
\* the current_user check, no click on Sync starts a thread.
C25_NoRunAfterFailedConnect ==
    auth \in {"failed_client", "failed_user"} => workers = <<>>

\* the thread has read the direction and has not entered its loop
DirectionRead(t) ==
    \/ t.pc \in {"liked", "playlists", "albums"}
    \/ t.pc = "loop" /\ t.task_i = 0

\* the thread has built tasks and is about to enter its loop
TasksBuilt(t) == t.pc = "loop" /\ t.task_i = 0

\* C26: the direction and the tasks a run executes are those _start_sync
\* validated at the click.  Whatever is toggled or flipped after the click,
\* the thread works in the direction of the click, on the tasks selected
\* at the click, and never on an empty list of tasks.  (The thread's
\* direction and tasks are locals that do not change once the loop is
\* entered, so it is enough to compare them there.)
C26_RunsWhatWasValidated ==
    \A w \in Live :
        /\ DirectionRead(workers[w])
              => workers[w].dir = workers[w].cdir
        /\ TasksBuilt(workers[w])
              => /\ workers[w].tasks = TaskList(workers[w].csel)
                 /\ Len(workers[w].tasks) >= 1

====
